---------------------------- MODULE Spec2Model ----------------------------
(***************************************************************************)
(* LoanLog calculation core: EMI sizing, amortization schedule, tenure     *)
(* solving, prepayment effect and payment allocation.                      *)
(*                                                                         *)
(* JavaScript numbers are modelled as exact rationals [num, den] in lowest *)
(* terms: the arithmetic of the source is carried out exactly and          *)
(* x.toFixed(2) rounds the exact value half away from zero.  The           *)
(* representation error of IEEE-754 doubles is not modelled.               *)
(***************************************************************************)
EXTENDS Integers, Sequences, FiniteSets, TLC

VARIABLES pc, op, args, out, clock, earlier, loans, payments, issued, deployment, calls

vars == <<pc, op, args, out, clock, earlier, loans, payments, issued, deployment, calls>>

\* The stored rows, the number of payment ids issued, the deployment that
\* serves the calls and the calls in flight: the calculation core touches
\* none of them.
store == <<loans, payments, issued, deployment, calls>>

(***************************************************************************)
(* Bounds of the model.                                                    *)
(***************************************************************************)
MaxInstallments == 5

(***************************************************************************)
(* Numbers.                                                                *)
(***************************************************************************)
Abs(x) == IF x < 0 THEN -x ELSE x

RECURSIVE GCD(_, _)
GCD(a, b) == IF b = 0 THEN a ELSE GCD(b, a % b)

\* The number n/d in lowest terms with a positive denominator (d # 0).
Rat(n, d) ==
  LET g == GCD(Abs(n), Abs(d))
      s == IF d < 0 THEN -1 ELSE 1
  IN  [num |-> s * (n \div g), den |-> Abs(d) \div g]

RInt(k) == [num |-> k, den |-> 1]
Zero == RInt(0)
One == RInt(1)
\* An amount given in thousandths of the currency unit (1230 is 1.23).
Mills(m) == Rat(m, 1000)
\* An amount given in cents (123 is 1.23).
Cents(c) == Rat(c, 100)

RNeg(a) == [num |-> -a.num, den |-> a.den]

RAdd(a, b) ==
  LET g == GCD(a.den, b.den)
  IN  Rat(a.num * (b.den \div g) + b.num * (a.den \div g), (a.den \div g) * b.den)

RSub(a, b) == RAdd(a, RNeg(b))

RMul(a, b) ==
  LET g1 == GCD(Abs(a.num), b.den)
      g2 == GCD(Abs(b.num), a.den)
  IN  Rat((a.num \div g1) * (b.num \div g2), (a.den \div g2) * (b.den \div g1))

\* a / b for b # 0.
RDiv(a, b) == RMul(a, Rat(b.den, b.num))

RLt(a, b) ==
  LET g == GCD(a.den, b.den)
  IN  a.num * (b.den \div g) < b.num * (a.den \div g)

RLe(a, b) == ~RLt(b, a)

RMax(a, b) == IF RLt(a, b) THEN b ELSE a
RMin(a, b) == IF RLt(b, a) THEN b ELSE a

\* Math.pow(b, k) for a whole exponent k >= 0.
RECURSIVE MathPow(_, _)
MathPow(b, k) == IF k = 0 THEN One ELSE RMul(b, MathPow(b, k - 1))

\* Math.ceil(x), a whole number.
MathCeil(x) == -((-x.num) \div x.den)

\* parseFloat(x.toFixed(2)): x rounded to the nearest hundredth, a tie going
\* away from zero.
toFixed2(x) ==
  LET a == Abs(x.num)
      whole == a \div x.den
      rest == (a % x.den) * 100
      q == rest \div x.den
      up == IF 2 * (rest % x.den) >= x.den THEN 1 ELSE 0
      c == whole * 100 + q + up
  IN  Rat(IF x.num < 0 THEN -c ELSE c, 100)

\* Whether x is a whole number of cents.
IsWholeCents(x) == 100 % x.den = 0

(***************************************************************************)
(* Whole numbers beyond the range of the integers above: a natural number  *)
(* as the sequence of its digits in base 10000, least significant first.   *)
(* They carry the powers (1 + r)^n of the source where these are large.    *)
(***************************************************************************)
RECURSIVE BigOf(_)
BigOf(k) == IF k = 0 THEN <<>> ELSE <<k % 10000>> \o BigOf(k \div 10000)

\* a with zero digits appended up to length n.
BigPad(a, n) == a \o [i \in 1 .. (n - Len(a)) |-> 0]

BigLen(a, b) == IF Len(a) < Len(b) THEN Len(b) ELSE Len(a)

\* The digits and the carry of a + b + carry for a and b of one length; the
\* halves are added one after the other.
RECURSIVE BigAddCarry(_, _, _)
BigAddCarry(a, b, carry) ==
  IF Len(a) = 0 THEN [digits |-> <<>>, carry |-> carry]
  ELSE IF Len(a) = 1
  THEN LET v == a[1] + b[1] + carry
       IN  [digits |-> <<v % 10000>>, carry |-> v \div 10000]
  ELSE LET h == Len(a) \div 2
           low == BigAddCarry(SubSeq(a, 1, h), SubSeq(b, 1, h), carry)
           high == BigAddCarry(SubSeq(a, h + 1, Len(a)), SubSeq(b, h + 1, Len(b)), low.carry)
       IN  [digits |-> low.digits \o high.digits, carry |-> high.carry]

BigAdd(a, b) ==
  LET n == BigLen(a, b)
      sum == BigAddCarry(BigPad(a, n), BigPad(b, n), 0)
  IN  sum.digits \o BigOf(sum.carry)

RECURSIVE BigSubBorrow(_, _, _)
BigSubBorrow(a, b, borrow) ==
  IF Len(a) = 0 THEN [digits |-> <<>>, borrow |-> borrow]
  ELSE IF Len(a) = 1
  THEN LET v == a[1] - b[1] - borrow
       IN  [digits |-> <<IF v < 0 THEN v + 10000 ELSE v>>,
            borrow |-> IF v < 0 THEN 1 ELSE 0]
  ELSE LET h == Len(a) \div 2
           low == BigSubBorrow(SubSeq(a, 1, h), SubSeq(b, 1, h), borrow)
           high == BigSubBorrow(SubSeq(a, h + 1, Len(a)), SubSeq(b, h + 1, Len(b)), low.borrow)
       IN  [digits |-> low.digits \o high.digits, borrow |-> high.borrow]

\* a - b for a >= b.
BigSub(a, b) ==
  LET n == BigLen(a, b)
  IN  BigSubBorrow(BigPad(a, n), BigPad(b, n), 0).digits

\* The digits and the carry of a * digit + carry for one base-10000 digit.
RECURSIVE BigMulDigit(_, _, _)
BigMulDigit(a, digit, carry) ==
  IF Len(a) = 0 THEN [digits |-> <<>>, carry |-> carry]
  ELSE IF Len(a) = 1
  THEN LET v == a[1] * digit + carry
       IN  [digits |-> <<v % 10000>>, carry |-> v \div 10000]
  ELSE LET h == Len(a) \div 2
           low == BigMulDigit(SubSeq(a, 1, h), digit, carry)
           high == BigMulDigit(SubSeq(a, h + 1, Len(a)), digit, low.carry)
       IN  [digits |-> low.digits \o high.digits, carry |-> high.carry]

RECURSIVE BigMul(_, _)
BigMul(a, b) ==
  IF Len(b) = 0 THEN <<>>
  ELSE IF Len(b) = 1
  THEN LET product == BigMulDigit(a, b[1], 0)
       IN  product.digits \o BigOf(product.carry)
  ELSE LET h == Len(b) \div 2
       IN  BigAdd(BigMul(a, SubSeq(b, 1, h)),
                  BigPad(<<>>, h) \o BigMul(a, SubSeq(b, h + 1, Len(b))))

\* a^k by repeated squaring.
RECURSIVE BigPow(_, _)
BigPow(a, k) ==
  IF k = 0 THEN <<1>>
  ELSE LET half == BigPow(a, k \div 2)
           square == BigMul(half, half)
       IN  IF k % 2 = 1 THEN BigMul(square, a) ELSE square

\* -1, 0 or 1 as a is less than, equal to or greater than b, for a and b of
\* one length: the upper halves decide unless they are equal.
RECURSIVE BigCompareDigits(_, _)
BigCompareDigits(a, b) ==
  IF Len(a) = 0 THEN 0
  ELSE IF Len(a) = 1
  THEN IF a[1] < b[1] THEN -1 ELSE IF a[1] > b[1] THEN 1 ELSE 0
  ELSE LET h == Len(a) \div 2
           upper == BigCompareDigits(SubSeq(a, h + 1, Len(a)), SubSeq(b, h + 1, Len(b)))
       IN  IF upper # 0 THEN upper
           ELSE BigCompareDigits(SubSeq(a, 1, h), SubSeq(b, 1, h))

BigLe(a, b) ==
  LET n == BigLen(a, b)
  IN  BigCompareDigits(BigPad(a, n), BigPad(b, n)) <= 0

\* Whether c - 1/2 <= 100 * (K * root - F), root being the q-th root of
\* xNum / xDen and rhs being xNum * (200 * K.num * F.den)^q (K > 0, F >= 0).
CentsReached(c, K, F, q, xDen, rhs) ==
  \/ c <= 0
  \/ LET t == BigMul(BigAdd(BigMul(BigOf(2 * c - 1), BigOf(F.den)),
                            BigMul(BigOf(200), BigOf(F.num))),
                     BigOf(K.den))
     IN  BigLe(BigMul(BigPow(t, q), xDen), rhs)

\* A power of two that is not reached, from h on.
RECURSIVE CentsNotReached(_, _, _, _, _, _)
CentsNotReached(h, K, F, q, xDen, rhs) ==
  IF CentsReached(h, K, F, q, xDen, rhs)
  THEN CentsNotReached(2 * h, K, F, q, xDen, rhs)
  ELSE h

\* The largest c that is reached, lo being reached and hi not.
RECURSIVE CentsBetween(_, _, _, _, _, _, _)
CentsBetween(lo, hi, K, F, q, xDen, rhs) ==
  IF hi - lo <= 1 THEN lo
  ELSE LET mid == (lo + hi) \div 2
       IN  IF CentsReached(mid, K, F, q, xDen, rhs)
           THEN CentsBetween(mid, hi, K, F, q, xDen, rhs)
           ELSE CentsBetween(lo, mid, K, F, q, xDen, rhs)

\* parseFloat(v.toFixed(2)) for v = K * root - F >= 0, root being the q-th
\* root of xNum / xDen (big numbers): v rounded to the nearest hundredth, a tie
\* going up.
toFixed2OfRoot(K, F, xNum, xDen, q) ==
  LET rhs == BigMul(xNum, BigPow(BigMul(BigOf(200), BigMul(BigOf(K.num), BigOf(F.den))), q))
      hi == CentsNotReached(1, K, F, q, xDen, rhs)
  IN  Rat(CentsBetween(0, hi, K, F, q, xDen, rhs), 100)

(***************************************************************************)
(* Results of a call: a returned value or a thrown Error.                  *)
(***************************************************************************)
Return(v) == [ok |-> TRUE, value |-> v]
Throw(msg) == [ok |-> FALSE, error |-> msg]

(***************************************************************************)
(* Frequency and date utilities (emiCalculator.js).                        *)
(***************************************************************************)
PaymentFrequencies ==
  {"daily", "weekly", "biweekly", "monthly", "quarterly", "yearly", "one_time", "custom"}

\* frequencyMap[frequency] || 12
getPeriodsPerYear(frequency) ==
  CASE frequency = "daily" -> 365
    [] frequency = "weekly" -> 52
    [] frequency = "biweekly" -> 26
    [] frequency = "monthly" -> 12
    [] frequency = "quarterly" -> 4
    [] frequency = "yearly" -> 1
    [] OTHER -> 12

IsLeapYear(y) == (y % 4 = 0 /\ y % 100 # 0) \/ y % 400 = 0

DaysInMonth(y, m) ==
  CASE m \in {4, 6, 9, 11} -> 30
    [] m = 2 -> IF IsLeapYear(y) THEN 29 ELSE 28
    [] OTHER -> 31

\* The calendar date that the fields (y, m, d) denote once a month number
\* above 12 and a day number above the month's length are carried over, as
\* Date's setters do.
RECURSIVE MakeDate(_, _, _)
MakeDate(y, m, d) ==
  IF m > 12 THEN MakeDate(y + 1, m - 12, d)
  ELSE IF d > DaysInMonth(y, m) THEN MakeDate(y, m + 1, d - DaysInMonth(y, m))
  ELSE [y |-> y, m |-> m, d |-> d]

getNextPaymentDate(currentDate, frequency, customDays) ==
  CASE frequency = "daily" -> MakeDate(currentDate.y, currentDate.m, currentDate.d + 1)
    [] frequency = "weekly" -> MakeDate(currentDate.y, currentDate.m, currentDate.d + 7)
    [] frequency = "biweekly" -> MakeDate(currentDate.y, currentDate.m, currentDate.d + 14)
    [] frequency = "monthly" -> MakeDate(currentDate.y, currentDate.m + 1, currentDate.d)
    [] frequency = "quarterly" -> MakeDate(currentDate.y, currentDate.m + 3, currentDate.d)
    [] frequency = "yearly" -> MakeDate(currentDate.y + 1, currentDate.m, currentDate.d)
    [] frequency = "custom" ->
         IF customDays # 0
         THEN MakeDate(currentDate.y, currentDate.m, currentDate.d + customDays)
         ELSE currentDate
    [] OTHER -> MakeDate(currentDate.y, currentDate.m + 1, currentDate.d)

(***************************************************************************)
(* EMI engine (emiCalculator.js).                                          *)
(***************************************************************************)
\* (annualInterestRate / 100) / periodsPerYear
RatePerPeriod(annualInterestRate, paymentFrequency) ==
  RDiv(RDiv(annualInterestRate, RInt(100)), RInt(getPeriodsPerYear(paymentFrequency)))

\* The value undefined of an argument that was left out.
Undefined == [undefined |-> TRUE]

\* !x || x === 0 for a number or undefined.
IsFalsy(x) == x = Undefined \/ x = Zero

calculateEMI_FlatInterest(principal, annualInterestRate, numberOfInstallments, paymentFrequency) ==
  IF RLe(principal, Zero) THEN Throw("Principal must be positive")
  ELSE IF numberOfInstallments <= 0 THEN Throw("Number of installments must be positive")
  ELSE LET ratePerPeriod == IF annualInterestRate = Undefined THEN Zero
                            ELSE RatePerPeriod(annualInterestRate, paymentFrequency)
       IN  Return(toFixed2(RAdd(RDiv(principal, RInt(numberOfInstallments)),
                                RMul(principal, ratePerPeriod))))

\* The quotient principal * r * g / (g - 1) with g = (1 + r)^n is formed with
\* g = growthNum / growthDen as big numbers, both signs taken off for r < 0
\* (r > -1).
calculateEMI(principal, annualInterestRate, numberOfInstallments, paymentFrequency) ==
  IF RLe(principal, Zero) THEN Throw("Principal must be positive")
  ELSE IF numberOfInstallments <= 0 THEN Throw("Number of installments must be positive")
  ELSE IF IsFalsy(annualInterestRate)
  THEN Return(toFixed2(RDiv(principal, RInt(numberOfInstallments))))
  ELSE
    LET ratePerPeriod == RatePerPeriod(annualInterestRate, paymentFrequency)
        growthNum == BigPow(BigOf(ratePerPeriod.num + ratePerPeriod.den), numberOfInstallments)
        growthDen == BigPow(BigOf(ratePerPeriod.den), numberOfInstallments)
        emiNum == BigMul(BigOf(principal.num), BigMul(BigOf(Abs(ratePerPeriod.num)), growthNum))
        emiDen == BigMul(BigOf(principal.den),
                         BigMul(BigOf(ratePerPeriod.den),
                                IF ratePerPeriod.num > 0
                                THEN BigSub(growthNum, growthDen)
                                ELSE BigSub(growthDen, growthNum)))
    IN  Return(toFixed2OfRoot(One, Zero, emiNum, emiDen, 1))

\* The entry pushed for one installment, remainingBalance being the balance
\* after this period's principal was taken off.
ScheduleEntry_NoFinalAdjustment(installmentNumber, numberOfInstallments, emi, interestForPeriod, principalForPeriod, remainingBalance, currentDate) ==
  [installmentNumber |-> installmentNumber,
   dueDate |-> currentDate,
   emiAmount |-> toFixed2(emi),
   principalComponent |-> toFixed2(principalForPeriod),
   interestComponent |-> toFixed2(interestForPeriod),
   remainingBalance |-> toFixed2(RMax(Zero, remainingBalance))]

ScheduleEntry(installmentNumber, numberOfInstallments, emi, interestForPeriod, principalForPeriod, remainingBalance, currentDate) ==
  LET isLastInstallment == installmentNumber = numberOfInstallments
      adjustedPrincipal == IF isLastInstallment
                           THEN RAdd(principalForPeriod, remainingBalance)
                           ELSE principalForPeriod
      adjustedEMI == IF isLastInstallment THEN RAdd(emi, remainingBalance) ELSE emi
      adjustedBalance == IF isLastInstallment THEN Zero ELSE remainingBalance
  IN  [installmentNumber |-> installmentNumber,
       dueDate |-> currentDate,
       emiAmount |-> toFixed2(adjustedEMI),
       principalComponent |-> toFixed2(adjustedPrincipal),
       interestComponent |-> toFixed2(interestForPeriod),
       remainingBalance |-> toFixed2(RMax(Zero, adjustedBalance))]

\* The for loop from installmentNumber on: the entries it pushes.
RECURSIVE ScheduleLoop(_, _, _, _, _, _, _)
ScheduleLoop(installmentNumber, numberOfInstallments, emi, ratePerPeriod, remainingBalance, currentDate, paymentFrequency) ==
  IF installmentNumber > numberOfInstallments THEN <<>>
  ELSE
    LET interestForPeriod == RMul(remainingBalance, ratePerPeriod)
        principalForPeriod == RSub(emi, interestForPeriod)
        newBalance == RSub(remainingBalance, principalForPeriod)
    IN  <<ScheduleEntry(installmentNumber, numberOfInstallments, emi,
                        interestForPeriod, principalForPeriod, newBalance, currentDate)>>
        \o ScheduleLoop(installmentNumber + 1, numberOfInstallments, emi, ratePerPeriod,
                        newBalance, getNextPaymentDate(currentDate, paymentFrequency, 0),
                        paymentFrequency)

\* The schedule once the EMI is known (emiCalculator.js:88-124); emi is the
\* result of calculateEMI, whose Error goes on to the caller.
ScheduleWithEMI(loanDetails, emi) ==
  LET ratePerPeriod == IF ~IsFalsy(loanDetails.annualInterestRate)
                       THEN RatePerPeriod(loanDetails.annualInterestRate,
                                          loanDetails.paymentFrequency)
                       ELSE Zero
  IN  IF ~emi.ok THEN emi
      ELSE Return(ScheduleLoop(1, loanDetails.numberOfInstallments, emi.value,
                               ratePerPeriod, loanDetails.principal,
                               loanDetails.firstPaymentDate,
                               loanDetails.paymentFrequency))

generateAmortizationSchedule(loanDetails) ==
  ScheduleWithEMI(loanDetails,
                  calculateEMI(loanDetails.principal, loanDetails.annualInterestRate,
                               loanDetails.numberOfInstallments,
                               loanDetails.paymentFrequency))

\* Math.ceil(Math.log(a) / Math.log(b)) for a >= 1 and b > 1: the least whole
\* n with b^n >= a, found from n with power = b^n.
RECURSIVE CeilLogFrom(_, _, _, _)
CeilLogFrom(a, b, n, power) ==
  IF RLe(a, power) THEN n ELSE CeilLogFrom(a, b, n + 1, RMul(power, b))

CeilLog(a, b) == CeilLogFrom(a, b, 0, One)

\* Math.floor(Math.log(a) / Math.log(b)) for a >= 1 and b > 1.
FloorLog(a, b) ==
  LET n == CeilLog(a, b) IN IF MathPow(b, n) = a THEN n ELSE n - 1

\* The number Infinity, the value of x / 0 for x > 0.
Infinity == [num |-> 1, den |-> 0]

TooLowMessage == "EMI amount is too low to cover interest. Loan will never be repaid."

calculateNumberOfInstallments_StrictCheck(principal, emiAmount, annualInterestRate, paymentFrequency) ==
  IF RLe(emiAmount, Zero) \/ RLe(principal, Zero)
  THEN Throw("EMI and principal must be positive")
  ELSE IF IsFalsy(annualInterestRate)
  THEN Return(MathCeil(RDiv(principal, emiAmount)))
  ELSE
    LET ratePerPeriod == RatePerPeriod(annualInterestRate, paymentFrequency)
        minEMI == RMul(principal, ratePerPeriod)
    IN  IF RLt(emiAmount, minEMI) THEN Throw(TooLowMessage)
        ELSE IF emiAmount = minEMI THEN Return(Infinity)
        ELSE Return(CeilLog(RDiv(emiAmount, RSub(emiAmount, minEMI)),
                            RAdd(One, ratePerPeriod)))

calculateNumberOfInstallments_Floor(principal, emiAmount, annualInterestRate, paymentFrequency) ==
  IF RLe(emiAmount, Zero) \/ RLe(principal, Zero)
  THEN Throw("EMI and principal must be positive")
  ELSE IF IsFalsy(annualInterestRate)
  THEN Return(MathCeil(RDiv(principal, emiAmount)))
  ELSE
    LET ratePerPeriod == RatePerPeriod(annualInterestRate, paymentFrequency)
        minEMI == RMul(principal, ratePerPeriod)
    IN  IF RLe(emiAmount, minEMI) THEN Throw(TooLowMessage)
        ELSE Return(FloorLog(RDiv(emiAmount, RSub(emiAmount, minEMI)),
                             RAdd(One, ratePerPeriod)))

calculateNumberOfInstallments(principal, emiAmount, annualInterestRate, paymentFrequency) ==
  IF RLe(emiAmount, Zero) \/ RLe(principal, Zero)
  THEN Throw("EMI and principal must be positive")
  \* If no interest
  ELSE IF IsFalsy(annualInterestRate)
  THEN Return(MathCeil(RDiv(principal, emiAmount)))
  ELSE
    LET ratePerPeriod == RatePerPeriod(annualInterestRate, paymentFrequency)
        \* Check if EMI is sufficient to cover interest
        minEMI == RMul(principal, ratePerPeriod)
    IN  IF RLe(emiAmount, minEMI) THEN Throw(TooLowMessage)
        \* n = log(EMI / (EMI - P*r)) / log(1 + r)
        ELSE Return(CeilLog(RDiv(emiAmount, RSub(emiAmount, minEMI)),
                            RAdd(One, ratePerPeriod)))

\* Keep EMI same, reduce tenure (emiCalculator.js:245-259); newTenure is the
\* result of calculateNumberOfInstallments.
ReducedTenure(loanDetails, prepaymentAmount, newPrincipal, remainingInstallments, originalEMI, newTenure) ==
  IF ~newTenure.ok THEN newTenure
  ELSE
    LET oldTotalPayment == RMul(originalEMI, RInt(remainingInstallments))
        newTotalPayment == RAdd(RMul(originalEMI, RInt(newTenure.value)),
                                prepaymentAmount)
    IN  Return([newPrincipal |-> toFixed2(newPrincipal),
                newEMI |-> originalEMI,
                originalTenure |-> remainingInstallments,
                newTenure |-> newTenure.value,
                tenureReduced |-> remainingInstallments - newTenure.value,
                interestSaved |-> toFixed2(RSub(oldTotalPayment, newTotalPayment))])

\* Keep tenure same, reduce EMI (emiCalculator.js:259-273); newEMI is the
\* result of calculateEMI for the new principal.
ReducedEMI(loanDetails, prepaymentAmount, newPrincipal, remainingInstallments, originalEMI, newEMI) ==
  IF ~newEMI.ok THEN newEMI
  ELSE
    LET oldTotalPayment == RMul(originalEMI, RInt(remainingInstallments))
        newTotalPayment == RAdd(RMul(newEMI.value, RInt(remainingInstallments)),
                                prepaymentAmount)
    IN  Return([newPrincipal |-> toFixed2(newPrincipal),
                originalEMI |-> originalEMI,
                newEMI |-> toFixed2(newEMI.value),
                emiReduced |-> toFixed2(RSub(originalEMI, newEMI.value)),
                tenure |-> remainingInstallments,
                interestSaved |-> toFixed2(RSub(oldTotalPayment, newTotalPayment))])

\* The two prepayment options once the original EMI is known; originalEMI is
\* the result of calculateEMI, whose Error goes on to the caller.
PrepaymentWithEMI(loanDetails, prepaymentAmount, prepaymentOption, newPrincipal, remainingInstallments, originalEMI) ==
  IF ~originalEMI.ok THEN originalEMI
  ELSE IF prepaymentOption = "reduce_tenure"
  THEN ReducedTenure(loanDetails, prepaymentAmount, newPrincipal, remainingInstallments,
                     originalEMI.value,
                     calculateNumberOfInstallments(newPrincipal, originalEMI.value,
                                                   loanDetails.annualInterestRate,
                                                   loanDetails.paymentFrequency))
  ELSE ReducedEMI(loanDetails, prepaymentAmount, newPrincipal, remainingInstallments,
                  originalEMI.value,
                  calculateEMI(newPrincipal, loanDetails.annualInterestRate,
                               remainingInstallments, loanDetails.paymentFrequency))

\* The result of calculatePrepaymentEffect once newPrincipal > 0 is known
\* (emiCalculator.js:240-275).
PrepaymentOutcome(loanDetails, prepaymentAmount, prepaymentOption, newPrincipal) ==
  PrepaymentWithEMI(loanDetails, prepaymentAmount, prepaymentOption, newPrincipal,
                    loanDetails.numberOfInstallments - loanDetails.completedInstallments,
                    calculateEMI(loanDetails.principal, loanDetails.annualInterestRate,
                                 loanDetails.numberOfInstallments,
                                 loanDetails.paymentFrequency))

\* The result returned when the prepayment repays the loan in full.
FullyRepaid(loanDetails, prepaymentAmount) ==
  Return([newPrincipal |-> Zero,
          newEMI |-> Zero,
          newTenure |-> 0,
          interestSaved |-> RSub(loanDetails.currentBalance, prepaymentAmount),
          message |-> "Loan will be fully repaid with this prepayment"])

calculatePrepaymentEffect_StrictlyNegative(loanDetails, prepaymentAmount, prepaymentOption) ==
  LET newPrincipal == RSub(loanDetails.currentBalance, prepaymentAmount)
  IN  IF RLt(newPrincipal, Zero)
      THEN FullyRepaid(loanDetails, prepaymentAmount)
      ELSE PrepaymentOutcome(loanDetails, prepaymentAmount, prepaymentOption, newPrincipal)

calculatePrepaymentEffect(loanDetails, prepaymentAmount, prepaymentOption) ==
  LET newPrincipal == RSub(loanDetails.currentBalance, prepaymentAmount)
  IN  IF RLe(newPrincipal, Zero)
      THEN FullyRepaid(loanDetails, prepaymentAmount)
      ELSE PrepaymentOutcome(loanDetails, prepaymentAmount, prepaymentOption, newPrincipal)

calculatePrincipalFromEMI_FlatTotal(emiAmount, numberOfInstallments, annualInterestRate, paymentFrequency) ==
  LET totalAmount == RMul(emiAmount, RInt(numberOfInstallments))
  IN  Return([principal |-> toFixed2(totalAmount),
              totalAmount |-> toFixed2(totalAmount),
              totalInterest |-> Zero])

calculatePrincipalFromEMI(emiAmount, numberOfInstallments, annualInterestRate, paymentFrequency) ==
  IF IsFalsy(annualInterestRate)
  THEN Return([principal |-> RMul(emiAmount, RInt(numberOfInstallments)),
               totalAmount |-> RMul(emiAmount, RInt(numberOfInstallments)),
               totalInterest |-> Zero])
  ELSE
    LET ratePerPeriod == RatePerPeriod(annualInterestRate, paymentFrequency)
        growth == MathPow(RAdd(One, ratePerPeriod), numberOfInstallments)
        principal == RDiv(RMul(emiAmount, RSub(growth, One)), RMul(ratePerPeriod, growth))
        totalAmount == RMul(emiAmount, RInt(numberOfInstallments))
        totalInterest == RSub(totalAmount, principal)
    IN  Return([principal |-> toFixed2(principal),
                totalAmount |-> toFixed2(totalAmount),
                totalInterest |-> toFixed2(totalInterest)])

(***************************************************************************)
(* Payment allocation (interestCalculator.js).                             *)
(***************************************************************************)
InvalidInputMessage ==
  "Invalid input: principal must be positive, rate and time must be non-negative"

calculateSimpleInterest_Unchecked(principal, ratePerAnnum, timeInDays) ==
  LET timeInYears == Rat(timeInDays, 365)
      interest == RDiv(RMul(RMul(principal, ratePerAnnum), timeInYears), RInt(100))
  IN  Return(toFixed2(interest))

calculateSimpleInterest_WholeMonths(principal, ratePerAnnum, timeInDays) ==
  IF RLe(principal, Zero) \/ RLt(ratePerAnnum, Zero) \/ timeInDays < 0
  THEN Throw(InvalidInputMessage)
  ELSE
    LET timeInYears == Rat(30 * ((timeInDays + 29) \div 30), 365)
        interest == RDiv(RMul(RMul(principal, ratePerAnnum), timeInYears), RInt(100))
    IN  Return(toFixed2(interest))

calculateSimpleInterest(principal, ratePerAnnum, timeInDays) ==
  IF RLe(principal, Zero) \/ RLt(ratePerAnnum, Zero) \/ timeInDays < 0
  THEN Throw(InvalidInputMessage)
  ELSE
    LET timeInYears == Rat(timeInDays, 365)
        interest == RDiv(RMul(RMul(principal, ratePerAnnum), timeInYears), RInt(100))
    IN  Return(toFixed2(interest))

\* frequencyMap[compoundFrequency] || 12
compoundFrequencyMap(compoundFrequency) ==
  CASE compoundFrequency = "daily" -> 365
    [] compoundFrequency = "weekly" -> 52
    [] compoundFrequency = "biweekly" -> 26
    [] compoundFrequency = "monthly" -> 12
    [] compoundFrequency = "quarterly" -> 4
    [] compoundFrequency = "yearly" -> 1
    [] OTHER -> 12

calculateCompoundInterest_SinglePeriod(principal, ratePerAnnum, timeInDays, compoundFrequency) ==
  IF RLe(principal, Zero) \/ RLt(ratePerAnnum, Zero) \/ timeInDays < 0
  THEN Throw(InvalidInputMessage)
  ELSE
    LET rateDecimal == RDiv(ratePerAnnum, RInt(100))
        timeInYears == Rat(timeInDays, 365)
        n == compoundFrequencyMap(compoundFrequency)
        base == RAdd(One, RDiv(rateDecimal, RInt(n)))
        exponent == timeInYears
        powerNum == BigPow(BigOf(base.num), exponent.num)
        powerDen == BigPow(BigOf(base.den), exponent.num)
    IN  Return([totalAmount |->
                  toFixed2OfRoot(principal, Zero, powerNum, powerDen, exponent.den),
                interestAmount |->
                  toFixed2OfRoot(principal, principal, powerNum, powerDen, exponent.den)])

\* Math.pow(1 + rateDecimal / n, n * timeInYears) is the q-th root of
\* base^p for the exponent p / q in lowest terms; base^p is carried as two big
\* numbers and the root is taken where the amounts are rounded.
calculateCompoundInterest(principal, ratePerAnnum, timeInDays, compoundFrequency) ==
  IF RLe(principal, Zero) \/ RLt(ratePerAnnum, Zero) \/ timeInDays < 0
  THEN Throw(InvalidInputMessage)
  ELSE
    LET rateDecimal == RDiv(ratePerAnnum, RInt(100))
        timeInYears == Rat(timeInDays, 365)
        n == compoundFrequencyMap(compoundFrequency)
        base == RAdd(One, RDiv(rateDecimal, RInt(n)))
        exponent == RMul(RInt(n), timeInYears)
        powerNum == BigPow(BigOf(base.num), exponent.num)
        powerDen == BigPow(BigOf(base.den), exponent.num)
    IN  Return([totalAmount |->
                  toFixed2OfRoot(principal, Zero, powerNum, powerDen, exponent.den),
                interestAmount |->
                  toFixed2OfRoot(principal, principal, powerNum, powerDen, exponent.den)])

\* The Date that lies the given number of whole hours after a common origin.
Date(hours) == [time |-> hours]

\* Math.ceil((endDate - startDate) / (1000 * 60 * 60 * 24))
DaysBetween(startDate, endDate) == MathCeil(Rat(endDate.time - startDate.time, 24))

\* The interestAmount of a result of calculateCompoundInterest, whose Error
\* goes on to the caller.
InterestAmountOf(result) ==
  IF result.ok THEN Return(result.value.interestAmount) ELSE result

calculatePeriodInterest(principal, ratePerAnnum, startDate, endDate, interestType, compoundFrequency) ==
  LET timeInDays == DaysBetween(startDate, endDate)
  IN  IF timeInDays <= 0 THEN Return(Zero)
      ELSE IF interestType = "simple"
      THEN calculateSimpleInterest(principal, ratePerAnnum, timeInDays)
      ELSE IF interestType = "compound"
      THEN InterestAmountOf(calculateCompoundInterest(principal, ratePerAnnum, timeInDays,
                                                      compoundFrequency))
      ELSE Return(Zero)

\* The amounts returned once the interest is known (interestCalculator.js:
\* 144-147); interest is a result whose Error goes on to the caller.
TotalAmountDueWith(loanDetails, interest) ==
  IF ~interest.ok THEN interest
  ELSE Return([totalAmountDue |->
                 toFixed2(RAdd(loanDetails.principalAmount, interest.value)),
               interestAmount |-> toFixed2(interest.value)])

\* The interest of the loan over timeInDays by its interestType
\* (interestCalculator.js:135-142).
InterestByType(loanDetails, timeInDays) ==
  IF loanDetails.interestType = "simple"
  THEN calculateSimpleInterest(loanDetails.principalAmount, loanDetails.interestRate,
                               timeInDays)
  ELSE IF loanDetails.interestType = "compound"
  THEN InterestAmountOf(calculateCompoundInterest(loanDetails.principalAmount,
                                                  loanDetails.interestRate, timeInDays,
                                                  loanDetails.compoundFrequency))
  ELSE Return(Zero)

calculateTotalAmountDue(loanDetails) ==
  IF loanDetails.interestType = "none" \/ IsFalsy(loanDetails.interestRate)
  THEN Return([totalAmountDue |-> loanDetails.principalAmount, interestAmount |-> Zero])
  ELSE TotalAmountDueWith(loanDetails,
                          InterestByType(loanDetails,
                                         DaysBetween(loanDetails.issueDate,
                                                     loanDetails.dueDate)))

\* systemClock is the Date that new Date() yields when the call is made; the
\* default of currentDate takes it when the caller leaves currentDate out.
calculateAccruedInterest(loanDetails, currentDate, systemClock) ==
  calculatePeriodInterest(loanDetails.principalAmount, loanDetails.interestRate,
                          loanDetails.lastCalculationDate,
                          IF currentDate = Undefined THEN systemClock ELSE currentDate,
                          loanDetails.interestType, loanDetails.compoundFrequency)

calculatePaymentBreakdown_NoInterestCap(paymentAmount, accruedInterest, outstandingPrincipal) ==
  LET interestPortion == accruedInterest
      uncapped == RMax(Zero, RSub(paymentAmount, interestPortion))
      principalPortion == IF RLt(outstandingPrincipal, uncapped)
                          THEN outstandingPrincipal
                          ELSE uncapped
  IN  [principalPortion |-> toFixed2(principalPortion),
       interestPortion |-> toFixed2(interestPortion)]

calculatePaymentBreakdown_NoPrincipalCap(paymentAmount, accruedInterest, outstandingPrincipal) ==
  LET interestPortion == RMin(paymentAmount, accruedInterest)
      principalPortion == RMax(Zero, RSub(paymentAmount, interestPortion))
  IN  [principalPortion |-> toFixed2(principalPortion),
       interestPortion |-> toFixed2(interestPortion)]

calculatePaymentBreakdown_PrincipalFirst(paymentAmount, accruedInterest, outstandingPrincipal) ==
  LET principalPortion == RMin(paymentAmount, outstandingPrincipal)
      uncapped == RMax(Zero, RSub(paymentAmount, principalPortion))
      interestPortion == IF RLt(accruedInterest, uncapped) THEN accruedInterest ELSE uncapped
  IN  [principalPortion |-> toFixed2(principalPortion),
       interestPortion |-> toFixed2(interestPortion)]

calculatePaymentBreakdown(paymentAmount, accruedInterest, outstandingPrincipal) ==
  LET interestPortion == RMin(paymentAmount, accruedInterest)
      uncapped == RMax(Zero, RSub(paymentAmount, interestPortion))
      \* If payment exceeds total due, cap principal portion
      principalPortion == IF RLt(outstandingPrincipal, uncapped)
                          THEN outstandingPrincipal
                          ELSE uncapped
  IN  [principalPortion |-> toFixed2(principalPortion),
       interestPortion |-> toFixed2(interestPortion)]

(***************************************************************************)
(* The inputs the calls are made with.                                     *)
(***************************************************************************)
\* Principals: zero and a negative one (invalid), whole cents, and 1.005.
Principals ==
  {Cents(-100), Zero, Cents(10), Cents(100), Cents(230), Cents(1000), Mills(1005)}

\* Annual rate (percent) with a payment frequency.
RateTerms ==
  {<<Zero, "monthly">>, <<RInt(25), "yearly">>, <<RInt(100), "quarterly">>,
   <<RInt(50), "yearly">>, <<RInt(300), "one_time">>, <<RInt(1200), "custom">>,
   <<Zero, "daily">>, <<Zero, "weekly">>, <<Zero, "biweekly">>}

\* A negative annual rate (invalid).
NegativeRateTerms == {<<RInt(-25), "yearly">>}

\* The loan of the documented EMI example: 100000 at 12% over 12 monthly
\* installments.
DocumentedLoans ==
  {[principal |-> RInt(100000), annualInterestRate |-> RInt(12),
    numberOfInstallments |-> 12, paymentFrequency |-> "monthly"]}

\* The arguments calculateEMI is called with; the rate may be left out.
EMIInputs ==
  {[principal |-> p, annualInterestRate |-> t[1], numberOfInstallments |-> n,
    paymentFrequency |-> t[2]] :
     p \in Principals,
     t \in RateTerms \cup NegativeRateTerms \cup {<<Undefined, "monthly">>},
     n \in 0 .. MaxInstallments}
  \cup DocumentedLoans

FirstPaymentDates == {[y |-> 2026, m |-> 2, d |-> 1], [y |-> 2026, m |-> 1, d |-> 31]}

\* Amounts of a payment, of accrued interest and of outstanding principal:
\* whole cents, and amounts that are not whole cents.
Amounts ==
  {Zero, Mills(4), Mills(5), Cents(1), Mills(15), Cents(30000), Cents(50000),
   Cents(100000), Cents(1000000), Cents(1500000)}

\* EMI amounts offered to the tenure solver: invalid ones, amounts equal to
\* one period's interest of a principal above (0.25, 2.50, 5.00), and amounts
\* that repay a principal in exactly one or two periods (1.25, 0.90, 20.00).
EmiAmounts ==
  {Cents(-100), Zero, Cents(25), Cents(30), Cents(90), Cents(125), Cents(250),
   Cents(500), Cents(2000)}

\* Outstanding balances and prepayment amounts of calculatePrepaymentEffect.
CurrentBalances == {Cents(60), Cents(800), Mills(1005)}
PrepaymentAmounts == {Cents(20), Cents(200), Cents(800), Cents(1000)}
PrepaymentOptions == {"reduce_tenure", "reduce_emi"}

\* Principals, annual rates (percent) and day counts of the interest
\* calculations, invalid ones among them.
InterestPrincipals == {RInt(-1000), Zero, Mills(1005), RInt(100), RInt(10000)}
InterestRates == {RInt(-1), Zero, RInt(10), RInt(12)}
SimpleInterestDays == {-1, 0, 1, 2, 3, 182, 365}
CompoundInterestDays == {-1, 0, 73, 146}
CompoundFrequencies == {"daily", "monthly", "yearly", "custom"}

\* The documented comparison of compounding frequencies: 10000 at 12% for
\* 365 days.
DocumentedCompoundings ==
  {[principal |-> RInt(10000), ratePerAnnum |-> RInt(12), timeInDays |-> 365,
    compoundFrequency |-> f] : f \in {"daily", "monthly", "yearly"}}

CompoundInterestInputs ==
  {[principal |-> p, ratePerAnnum |-> r, timeInDays |-> d, compoundFrequency |-> f] :
     p \in InterestPrincipals, r \in InterestRates, d \in CompoundInterestDays,
     f \in CompoundFrequencies}
  \cup DocumentedCompoundings

\* Dates of the interest calculations: the issue date (also
\* the last calculation date), and due dates a day before it, on it, and
\* 72.5, 73 and 146 days after it.
IssueDates == {Date(0)}
DueDates == {Date(-24), Date(0), Date(1740), Date(1752), Date(3504)}
InterestTypes == {"none", "simple", "compound", "flat"}

TotalAmountDueInputs ==
  {[principalAmount |-> p, interestRate |-> r, issueDate |-> i, dueDate |-> d,
    interestType |-> t, compoundFrequency |-> f] :
     p \in InterestPrincipals, r \in InterestRates \cup {Undefined}, i \in IssueDates,
     d \in DueDates, t \in InterestTypes, f \in {"monthly", "yearly"}}

\* The arguments of calculateAccruedInterest; currentDate may be left out.
AccruedInterestInputs ==
  {[loanDetails |-> [principalAmount |-> p, interestRate |-> r, lastCalculationDate |-> i,
                     interestType |-> t, compoundFrequency |-> "monthly"],
    currentDate |-> d] :
     p \in InterestPrincipals, r \in InterestRates, i \in IssueDates,
     d \in DueDates \cup {Undefined}, t \in InterestTypes}

\* What the system clock shows when a call is made: 72.5, 73 and nearly 146
\* days after the issue date.
ClockReadings == {Date(1740), Date(1752), Date(3503)}

\* The arguments of calculatePrincipalFromEMI: amounts as such, and the EMI of
\* each valid loan for its own installments, rate and frequency.
PrincipalFromEMIInputs ==
  {[emiAmount |-> e, numberOfInstallments |-> n, annualInterestRate |-> t[1],
    paymentFrequency |-> t[2]] :
     e \in EmiAmounts, n \in 0 .. MaxInstallments,
     t \in RateTerms \cup NegativeRateTerms \cup {<<Undefined, "monthly">>}}
  \cup
  {[emiAmount |-> calculateEMI(p, t[1], n, t[2]).value, numberOfInstallments |-> n,
    annualInterestRate |-> t[1], paymentFrequency |-> t[2]] :
     p \in {x \in Principals : RLt(Zero, x)}, n \in 1 .. MaxInstallments,
     t \in RateTerms \cup NegativeRateTerms}

NoArgs == [none |-> TRUE]

(***************************************************************************)
(* The calls: a caller invokes one operation and reads its result.         *)
(***************************************************************************)
Init ==
  /\ pc = "idle"
  /\ op = "none"
  /\ args = NoArgs
  /\ out = NoArgs
  /\ clock = Date(0)
  /\ earlier = NoArgs
  /\ loans = {}
  /\ payments = {}
  /\ issued = 0
  /\ deployment = "backend"
  /\ calls = <<>>

CallCalculateEMI ==
  /\ pc = "idle"
  /\ \E a \in EMIInputs :
       /\ args' = a
       /\ out' = calculateEMI(a.principal, a.annualInterestRate, a.numberOfInstallments,
                              a.paymentFrequency)
  /\ op' = "calculateEMI"
  /\ pc' = "done"
  /\ UNCHANGED <<clock, earlier, store>>

CallCalculateSimpleInterest ==
  /\ pc = "idle"
  /\ \E p \in InterestPrincipals, r \in InterestRates, d \in SimpleInterestDays :
       /\ args' = [principal |-> p, ratePerAnnum |-> r, timeInDays |-> d]
       /\ out' = calculateSimpleInterest(p, r, d)
  /\ op' = "calculateSimpleInterest"
  /\ pc' = "done"
  /\ UNCHANGED <<clock, earlier, store>>

CallCalculateCompoundInterest ==
  /\ pc = "idle"
  /\ \E a \in CompoundInterestInputs :
       /\ args' = a
       /\ out' = calculateCompoundInterest(a.principal, a.ratePerAnnum, a.timeInDays,
                                           a.compoundFrequency)
  /\ op' = "calculateCompoundInterest"
  /\ pc' = "done"
  /\ UNCHANGED <<clock, earlier, store>>

CallCalculateTotalAmountDue ==
  /\ pc = "idle"
  /\ \E a \in TotalAmountDueInputs :
       /\ args' = a
       /\ out' = calculateTotalAmountDue(a)
  /\ op' = "calculateTotalAmountDue"
  /\ pc' = "done"
  /\ UNCHANGED <<clock, earlier, store>>

\* A call of calculateAccruedInterest while the system clock shows now.
CallCalculateAccruedInterest ==
  /\ pc = "idle"
  /\ \E a \in AccruedInterestInputs, now \in ClockReadings :
       /\ args' = a
       /\ clock' = now
       /\ out' = calculateAccruedInterest(a.loanDetails, a.currentDate, now)
  /\ op' = "calculateAccruedInterest"
  /\ pc' = "done"
  /\ UNCHANGED <<earlier, store>>

\* The caller makes the same call again, with the same arguments, at a later
\* time, and keeps the earlier result.
RepeatCalculateAccruedInterest ==
  /\ pc = "done"
  /\ op = "calculateAccruedInterest"
  /\ earlier = NoArgs
  /\ \E now \in ClockReadings :
       /\ now.time > clock.time
       /\ clock' = now
       /\ out' = calculateAccruedInterest(args.loanDetails, args.currentDate, now)
  /\ earlier' = out
  /\ UNCHANGED <<pc, op, args, store>>

CallCalculatePrincipalFromEMI ==
  /\ pc = "idle"
  /\ \E a \in PrincipalFromEMIInputs :
       /\ args' = a
       /\ out' = calculatePrincipalFromEMI(a.emiAmount, a.numberOfInstallments,
                                           a.annualInterestRate, a.paymentFrequency)
  /\ op' = "calculatePrincipalFromEMI"
  /\ pc' = "done"
  /\ UNCHANGED <<clock, earlier, store>>

CallGenerateAmortizationSchedule ==
  /\ pc = "idle"
  /\ \E p \in Principals, t \in RateTerms \cup NegativeRateTerms,
        n \in 0 .. MaxInstallments, d \in FirstPaymentDates :
       LET loanDetails == [principal |-> p, annualInterestRate |-> t[1],
                           numberOfInstallments |-> n, paymentFrequency |-> t[2],
                           firstPaymentDate |-> d]
       IN  /\ args' = loanDetails
           /\ out' = generateAmortizationSchedule(loanDetails)
  /\ op' = "generateAmortizationSchedule"
  /\ pc' = "done"
  /\ UNCHANGED <<clock, earlier, store>>

CallCalculatePaymentBreakdown ==
  /\ pc = "idle"
  /\ \E paymentAmount \in Amounts, accruedInterest \in Amounts,
        outstandingPrincipal \in Amounts :
       /\ args' = [paymentAmount |-> paymentAmount, accruedInterest |-> accruedInterest,
                   outstandingPrincipal |-> outstandingPrincipal]
       /\ out' = Return(calculatePaymentBreakdown(paymentAmount, accruedInterest,
                                                  outstandingPrincipal))
  /\ op' = "calculatePaymentBreakdown"
  /\ pc' = "done"
  /\ UNCHANGED <<clock, earlier, store>>

CallCalculateNumberOfInstallments ==
  /\ pc = "idle"
  /\ \E p \in Principals, e \in EmiAmounts, t \in RateTerms :
       /\ args' = [principal |-> p, emiAmount |-> e, annualInterestRate |-> t[1],
                   paymentFrequency |-> t[2]]
       /\ out' = calculateNumberOfInstallments(p, e, t[1], t[2])
  /\ op' = "calculateNumberOfInstallments"
  /\ pc' = "done"
  /\ UNCHANGED <<clock, earlier, store>>

CallCalculatePrepaymentEffect ==
  /\ pc = "idle"
  /\ \E p \in Principals, t \in RateTerms, n \in 0 .. MaxInstallments,
        b \in CurrentBalances, a \in PrepaymentAmounts, o \in PrepaymentOptions :
       \E c \in 0 .. n :
         LET loanDetails == [principal |-> p, annualInterestRate |-> t[1],
                             numberOfInstallments |-> n, paymentFrequency |-> t[2],
                             currentBalance |-> b, completedInstallments |-> c]
         IN  /\ args' = [loanDetails |-> loanDetails, prepaymentAmount |-> a,
                         prepaymentOption |-> o]
             /\ out' = calculatePrepaymentEffect(loanDetails, a, o)
  /\ op' = "calculatePrepaymentEffect"
  /\ pc' = "done"
  /\ UNCHANGED <<clock, earlier, store>>

Finish ==
  /\ pc = "done"
  /\ pc' = "idle"
  /\ op' = "none"
  /\ args' = NoArgs
  /\ out' = NoArgs
  /\ clock' = Date(0)
  /\ earlier' = NoArgs
  /\ UNCHANGED store

Next ==
  \/ CallCalculateSimpleInterest
  \/ CallCalculateCompoundInterest
  \/ CallCalculateTotalAmountDue
  \/ CallCalculateAccruedInterest
  \/ RepeatCalculateAccruedInterest
  \/ CallCalculateEMI
  \/ CallCalculatePrincipalFromEMI
  \/ CallGenerateAmortizationSchedule
  \/ CallCalculatePaymentBreakdown
  \/ CallCalculateNumberOfInstallments
  \/ CallCalculatePrepaymentEffect
  \/ Finish

Spec == Init /\ [][Next]_vars

(***************************************************************************)
(* Properties.                                                             *)
(***************************************************************************)
\* A valid loan: principal > 0, a whole number of installments > 0, rate >= 0.
ValidLoan(a) ==
  /\ RLt(Zero, a.principal)
  /\ a.numberOfInstallments > 0
  /\ RLe(Zero, a.annualInterestRate)

RECURSIVE SumPrincipalComponents(_)
SumPrincipalComponents(schedule) ==
  IF schedule = <<>> THEN Zero
  ELSE RAdd(Head(schedule).principalComponent, SumPrincipalComponents(Tail(schedule)))

ScheduleReturned == op = "generateAmortizationSchedule" /\ pc = "done"

\* C1: for every valid loan generateAmortizationSchedule returns exactly
\* numberOfInstallments entries, numbered 1, 2, ..., n in order, and the last
\* entry's remainingBalance is exactly 0.
C1_ScheduleShape ==
  (ScheduleReturned /\ ValidLoan(args)) =>
    /\ out.ok
    /\ Len(out.value) = args.numberOfInstallments
    /\ \A i \in 1 .. Len(out.value) : out.value[i].installmentNumber = i
    /\ out.value[args.numberOfInstallments].remainingBalance = Zero

\* A five-installment schedule at a non-zero rate whose balance before the
\* final correction was not zero: the fifth entry repays more than the EMI
\* less the period's interest.
C1_Witness ==
  /\ ScheduleReturned /\ ValidLoan(args)
  /\ args.numberOfInstallments = 5
  /\ args.annualInterestRate # Zero
  /\ out.ok /\ Len(out.value) = 5
  /\ out.value[5].remainingBalance = Zero
  /\ out.value[5].emiAmount # out.value[4].emiAmount

\* C2: for every valid loan the principalComponent values of the returned
\* schedule sum to the original principal to within one cent.
C2_PrincipalSumWithinOneCent ==
  (ScheduleReturned /\ ValidLoan(args) /\ out.ok) =>
    LET diff == RSub(SumPrincipalComponents(out.value), args.principal)
    IN  RLe(RNeg(Cents(1)), diff) /\ RLe(diff, Cents(1))

BreakdownReturned == op = "calculatePaymentBreakdown" /\ pc = "done"

\* The inputs of calculatePaymentBreakdown are all non-negative.
NonNegativeBreakdownInputs ==
  /\ RLe(Zero, args.paymentAmount)
  /\ RLe(Zero, args.accruedInterest)
  /\ RLe(Zero, args.outstandingPrincipal)

WholeCentBreakdownInputs ==
  /\ IsWholeCents(args.paymentAmount)
  /\ IsWholeCents(args.accruedInterest)
  /\ IsWholeCents(args.outstandingPrincipal)

\* min(paymentAmount, accruedInterest + outstandingPrincipal)
TotalAllocatable ==
  RMin(args.paymentAmount, RAdd(args.accruedInterest, args.outstandingPrincipal))

AllocatedTotal == RAdd(out.value.interestPortion, out.value.principalPortion)

\* C3 as stated: for all non-negative inputs interestPortion +
\* principalPortion = min(paymentAmount, accruedInterest + outstandingPrincipal).
C3_AllocationTotalExact ==
  (BreakdownReturned /\ NonNegativeBreakdownInputs) => AllocatedTotal = TotalAllocatable

\* C3 amended: the equation holds exactly for non-negative inputs in whole
\* cents; for any non-negative inputs the two returned portions are rounded to
\* the cent and their sum is within one cent of
\* min(paymentAmount, accruedInterest + outstandingPrincipal).
C3_AllocationTotal ==
  (BreakdownReturned /\ NonNegativeBreakdownInputs) =>
    /\ WholeCentBreakdownInputs => AllocatedTotal = TotalAllocatable
    /\ RLe(RSub(TotalAllocatable, Cents(1)), AllocatedTotal)
    /\ RLe(AllocatedTotal, RAdd(TotalAllocatable, Cents(1)))

\* A payment of 15000 against 500 of interest and 10000 of principal: the
\* principal portion is capped and 10500 is allocated in all.
C3_Witness ==
  /\ BreakdownReturned
  /\ args.paymentAmount = RInt(15000)
  /\ args.accruedInterest = RInt(500)
  /\ args.outstandingPrincipal = RInt(10000)
  /\ out.value.interestPortion = RInt(500)
  /\ out.value.principalPortion = RInt(10000)

\* C4 as stated: for all non-negative inputs interestPortion <=
\* accruedInterest, principalPortion <= outstandingPrincipal, interestPortion +
\* principalPortion <= paymentAmount, and both portions are >= 0.
C4_NeverOverAllocatesExact ==
  (BreakdownReturned /\ NonNegativeBreakdownInputs) =>
    /\ RLe(out.value.interestPortion, args.accruedInterest)
    /\ RLe(out.value.principalPortion, args.outstandingPrincipal)
    /\ RLe(AllocatedTotal, args.paymentAmount)
    /\ RLe(Zero, out.value.interestPortion)
    /\ RLe(Zero, out.value.principalPortion)

\* C4 amended: for non-negative inputs in whole cents the allocation never
\* exceeds accruedInterest, outstandingPrincipal or paymentAmount; for any
\* non-negative inputs each portion is >= 0 and at most its cap rounded to the
\* cent, and the two together exceed paymentAmount by at most one cent.
C4_NeverOverAllocates ==
  (BreakdownReturned /\ NonNegativeBreakdownInputs) =>
    /\ WholeCentBreakdownInputs =>
         /\ RLe(out.value.interestPortion, args.accruedInterest)
         /\ RLe(out.value.principalPortion, args.outstandingPrincipal)
         /\ RLe(AllocatedTotal, args.paymentAmount)
    /\ RLe(out.value.interestPortion, toFixed2(args.accruedInterest))
    /\ RLe(out.value.principalPortion, toFixed2(args.outstandingPrincipal))
    /\ RLe(AllocatedTotal, RAdd(args.paymentAmount, Cents(1)))
    /\ RLe(Zero, out.value.interestPortion)
    /\ RLe(Zero, out.value.principalPortion)

\* An overpayment in whole cents: more is paid than interest and principal
\* together, and the principal portion stops at the outstanding principal.
C4_Witness ==
  /\ BreakdownReturned /\ WholeCentBreakdownInputs
  /\ RLt(Zero, args.accruedInterest)
  /\ RLt(RAdd(args.accruedInterest, args.outstandingPrincipal), args.paymentAmount)
  /\ out.value.principalPortion = args.outstandingPrincipal
  /\ RLt(Zero, out.value.principalPortion)

\* C5 as stated: principalPortion > 0 only when interestPortion equals the
\* full accruedInterest; a payment smaller than the accrued interest goes
\* entirely to interest and leaves principalPortion = 0.
C5_InterestFirstExact ==
  (BreakdownReturned /\ NonNegativeBreakdownInputs) =>
    /\ RLt(Zero, out.value.principalPortion) =>
         out.value.interestPortion = args.accruedInterest
    /\ RLt(args.paymentAmount, args.accruedInterest) =>
         /\ out.value.interestPortion = args.paymentAmount
         /\ out.value.principalPortion = Zero

\* C5 amended: principalPortion > 0 only when interestPortion equals the full
\* accruedInterest rounded to the cent; a payment smaller than the accrued
\* interest goes entirely to interest (interestPortion is the payment rounded
\* to the cent) and leaves principalPortion = 0.
C5_InterestFirst ==
  (BreakdownReturned /\ NonNegativeBreakdownInputs) =>
    /\ RLt(Zero, out.value.principalPortion) =>
         out.value.interestPortion = toFixed2(args.accruedInterest)
    /\ RLt(args.paymentAmount, args.accruedInterest) =>
         /\ out.value.interestPortion = toFixed2(args.paymentAmount)
         /\ out.value.principalPortion = Zero

\* A payment of 300 against 500 of accrued interest: all of it is interest.
C5_Witness ==
  /\ BreakdownReturned
  /\ args.paymentAmount = RInt(300)
  /\ args.accruedInterest = RInt(500)
  /\ RLt(Zero, args.outstandingPrincipal)
  /\ out.value.interestPortion = RInt(300)
  /\ out.value.principalPortion = Zero

TenureReturned == op = "calculateNumberOfInstallments" /\ pc = "done"

\* principal x ratePerPeriod for the arguments of the call.
PeriodInterestOfPrincipal ==
  RMul(args.principal, RatePerPeriod(args.annualInterestRate, args.paymentFrequency))

\* The balance left of principal after k installments of emiAmount under
\* reducing balance at ratePerPeriod: each period adds the period's interest
\* and takes the installment off.
RECURSIVE BalanceAfter(_, _, _, _)
BalanceAfter(principal, emiAmount, ratePerPeriod, k) ==
  IF k = 0 THEN principal
  ELSE LET before == BalanceAfter(principal, emiAmount, ratePerPeriod, k - 1)
       IN  RSub(RAdd(before, RMul(before, ratePerPeriod)), emiAmount)

\* C6: for principal > 0, emi > 0 and rate > 0, calculateNumberOfInstallments
\* fails with the 'EMI too low' error exactly when emi <= principal x
\* ratePerPeriod; in every other such case it returns a positive whole tenure.
C6_TooLowExactly ==
  (/\ TenureReturned
   /\ RLt(Zero, args.principal)
   /\ RLt(Zero, args.emiAmount)
   /\ RLt(Zero, args.annualInterestRate)) =>
    /\ (out = Throw(TooLowMessage)) <=> RLe(args.emiAmount, PeriodInterestOfPrincipal)
    /\ RLt(PeriodInterestOfPrincipal, args.emiAmount) =>
         /\ out.ok
         /\ out.value \in Nat
         /\ out.value >= 1

\* An EMI exactly equal to one period's interest on the principal is refused.
C6_Witness ==
  /\ TenureReturned
  /\ RLt(Zero, args.principal)
  /\ RLt(Zero, args.annualInterestRate)
  /\ args.emiAmount = PeriodInterestOfPrincipal
  /\ out = Throw(TooLowMessage)

\* C7: when it succeeds, calculateNumberOfInstallments returns the smallest
\* whole n that repays the loan: with rate > 0, n installments bring the
\* reducing balance to 0 or below while n - 1 leave it above 0; with rate 0 it
\* is ceil(principal / emi), the least n with n x emi >= principal.
C7_SmallestTenure ==
  (TenureReturned /\ out.ok) =>
    IF args.annualInterestRate = Zero
    THEN /\ RLe(args.principal, RMul(RInt(out.value), args.emiAmount))
         /\ RLt(RMul(RInt(out.value - 1), args.emiAmount), args.principal)
    ELSE LET r == RatePerPeriod(args.annualInterestRate, args.paymentFrequency)
         IN  /\ out.value >= 1
             /\ RLe(BalanceAfter(args.principal, args.emiAmount, r, out.value), Zero)
             /\ RLt(Zero, BalanceAfter(args.principal, args.emiAmount, r, out.value - 1))

\* A tenure of more than two installments at a non-zero rate whose last
\* installment overpays (the closed-form n was not whole and was rounded up).
C7_Witness ==
  /\ TenureReturned /\ out.ok
  /\ args.annualInterestRate # Zero
  /\ out.value > 2
  /\ RLt(BalanceAfter(args.principal, args.emiAmount,
                      RatePerPeriod(args.annualInterestRate, args.paymentFrequency),
                      out.value), Zero)

PrepaymentReturned == op = "calculatePrepaymentEffect" /\ pc = "done"

\* 0 < prepaymentAmount < currentBalance
PartialPrepayment ==
  /\ RLt(Zero, args.prepaymentAmount)
  /\ RLt(args.prepaymentAmount, args.loanDetails.currentBalance)

\* A valid interest-bearing loan with installments still to pay whose balance
\* is not above the principal lent.
LoanInProgress ==
  /\ ValidLoan(args.loanDetails)
  /\ RLt(Zero, args.loanDetails.annualInterestRate)
  /\ args.loanDetails.completedInstallments < args.loanDetails.numberOfInstallments
  /\ RLe(args.loanDetails.currentBalance, args.loanDetails.principal)

RemainingInstallments ==
  args.loanDetails.numberOfInstallments - args.loanDetails.completedInstallments

OriginalEMI ==
  calculateEMI(args.loanDetails.principal, args.loanDetails.annualInterestRate,
               args.loanDetails.numberOfInstallments,
               args.loanDetails.paymentFrequency).value

\* C8: with option reduce_tenure and 0 < prepaymentAmount < currentBalance,
\* calculatePrepaymentEffect keeps newEMI equal to the original EMI, returns a
\* newTenure lower than the remaining installment count and reports
\* interestSaved > 0.
C8_ReduceTenure ==
  (/\ PrepaymentReturned
   /\ args.prepaymentOption = "reduce_tenure"
   /\ PartialPrepayment
   /\ LoanInProgress) =>
    /\ out.ok
    /\ out.value.newEMI = OriginalEMI
    /\ out.value.newTenure < RemainingInstallments
    /\ RLt(Zero, out.value.interestSaved)

\* C9: with option reduce_emi and 0 < prepaymentAmount < currentBalance,
\* calculatePrepaymentEffect keeps the tenure at the remaining installment
\* count, returns newEMI lower than the original EMI and reports
\* interestSaved > 0.
C9_ReduceEmi ==
  (/\ PrepaymentReturned
   /\ args.prepaymentOption = "reduce_emi"
   /\ PartialPrepayment
   /\ LoanInProgress) =>
    /\ out.ok
    /\ out.value.tenure = RemainingInstallments
    /\ RLt(out.value.newEMI, OriginalEMI)
    /\ RLt(Zero, out.value.interestSaved)

\* C10: when prepaymentAmount >= currentBalance, calculatePrepaymentEffect
\* reports the loan as fully closed (newPrincipal 0, newEMI 0, newTenure 0)
\* with interestSaved = currentBalance - prepaymentAmount, for either option
\* and whatever the other loan details are: no error is raised on this path.
C10_FullyClosed ==
  (PrepaymentReturned /\ RLe(args.loanDetails.currentBalance, args.prepaymentAmount)) =>
    /\ out.ok
    /\ out.value.newPrincipal = Zero
    /\ out.value.newEMI = Zero
    /\ out.value.newTenure = 0
    /\ out.value.interestSaved =
         RSub(args.loanDetails.currentBalance, args.prepaymentAmount)

\* A prepayment of exactly the balance on loan details that calculateEMI
\* would refuse (principal 0): the loan is reported closed, nothing is thrown.
C10_Witness ==
  /\ PrepaymentReturned
  /\ args.prepaymentAmount = args.loanDetails.currentBalance
  /\ args.loanDetails.principal = Zero
  /\ args.prepaymentOption = "reduce_emi"
  /\ out.ok
  /\ out.value.newTenure = 0
  /\ out.value.interestSaved = Zero

\* C11: for every valid loan with rate > 0, across successive entries of the
\* generated schedule (the corrected final entry included) interestComponent
\* never increases and principalComponent never decreases.
C11_MonotoneComponents ==
  (ScheduleReturned /\ ValidLoan(args) /\ RLt(Zero, args.annualInterestRate) /\ out.ok) =>
    \A i \in 1 .. Len(out.value) - 1 :
      /\ RLe(out.value[i + 1].interestComponent, out.value[i].interestComponent)
      /\ RLe(out.value[i].principalComponent, out.value[i + 1].principalComponent)

\* Whether date a is earlier than date b.
DateLt(a, b) ==
  \/ a.y < b.y
  \/ a.y = b.y /\ a.m < b.m
  \/ a.y = b.y /\ a.m = b.m /\ a.d < b.d

\* The frequencies the schedule's date rule enumerates.
EnumeratedFrequencies ==
  {"daily", "weekly", "biweekly", "monthly", "quarterly", "yearly", "custom"}

\* C12: in a generated schedule the first entry's dueDate is firstPaymentDate
\* and every later entry's dueDate is later than the one before it, for every
\* enumerated frequency (daily, weekly, biweekly, monthly, quarterly, yearly,
\* custom).
C12_DueDatesAdvance ==
  (ScheduleReturned /\ out.ok /\ args.paymentFrequency \in EnumeratedFrequencies) =>
    /\ Len(out.value) > 0 => out.value[1].dueDate = args.firstPaymentDate
    /\ \A i \in 1 .. Len(out.value) - 1 :
         DateLt(out.value[i].dueDate, out.value[i + 1].dueDate)

EMIReturned == op = "calculateEMI" /\ pc = "done"

\* P * r * (1 + r)^n / ((1 + r)^n - 1)
ReducingBalanceInstallment(P, r, n) ==
  LET growth == MathPow(RAdd(One, r), n)
  IN  RDiv(RMul(RMul(P, r), growth), RSub(growth, One))

\* C13: for principal > 0 and installments > 0 calculateEMI returns
\* P * r * (1 + r)^n / ((1 + r)^n - 1), r = rate / 100 / periodsPerYear,
\* rounded to 2 decimals, and principal / installments rounded to 2 decimals
\* when the rate is 0 or absent; 100000 at 12% over 12 monthly installments
\* gives 8884.88.
C13_EMIFormula ==
  (EMIReturned /\ RLt(Zero, args.principal) /\ args.numberOfInstallments > 0) =>
    /\ out.ok
    /\ IsFalsy(args.annualInterestRate) =>
         out.value = toFixed2(RDiv(args.principal, RInt(args.numberOfInstallments)))
    /\ (~IsFalsy(args.annualInterestRate) /\ args \notin DocumentedLoans) =>
         out.value = toFixed2(ReducingBalanceInstallment(
                       args.principal,
                       RDiv(RDiv(args.annualInterestRate, RInt(100)),
                            RInt(getPeriodsPerYear(args.paymentFrequency))),
                       args.numberOfInstallments))
    /\ args \in DocumentedLoans => out.value = Cents(888488)

\* The documented example was computed: 8884.88.
C13_Witness ==
  /\ EMIReturned
  /\ args \in DocumentedLoans
  /\ out.ok /\ out.value = Cents(888488)

SimpleInterestReturned == op = "calculateSimpleInterest" /\ pc = "done"
CompoundInterestReturned == op = "calculateCompoundInterest" /\ pc = "done"

\* C14: calculateSimpleInterest and calculateCompoundInterest fail with the
\* invalid-input error whenever principal <= 0, rate < 0 or days < 0, and
\* calculateEMI fails whenever principal <= 0 or installments <= 0; a failed
\* call returns no value.
C14_InvalidInputRejected ==
  /\ ((SimpleInterestReturned \/ CompoundInterestReturned)
        /\ (RLe(args.principal, Zero) \/ RLt(args.ratePerAnnum, Zero) \/ args.timeInDays < 0))
       => (~out.ok /\ out.error = InvalidInputMessage /\ DOMAIN out = {"ok", "error"})
  /\ (EMIReturned /\ (RLe(args.principal, Zero) \/ args.numberOfInstallments <= 0))
       => (~out.ok /\ DOMAIN out = {"ok", "error"})

\* A compound-interest call whose only invalid argument is a negative day
\* count was refused.
C14_Witness ==
  /\ CompoundInterestReturned
  /\ RLt(Zero, args.principal) /\ RLt(Zero, args.ratePerAnnum) /\ args.timeInDays < 0
  /\ ~out.ok

TotalAmountDueReturned == op = "calculateTotalAmountDue" /\ pc = "done"
AccruedInterestReturned == op = "calculateAccruedInterest" /\ pc = "done"
PrincipalFromEMIReturned == op = "calculatePrincipalFromEMI" /\ pc = "done"

\* The rate is a number below zero.
NegativeRate(rate) == rate # Undefined /\ RLt(rate, Zero)

\* The call that returned was given a principal <= 0, a negative rate, a due
\* date earlier than the issue date, or an installment count <= 0.
InvalidCoreInput ==
  \/ /\ TotalAmountDueReturned
     /\ \/ RLe(args.principalAmount, Zero)
        \/ NegativeRate(args.interestRate)
        \/ args.dueDate.time < args.issueDate.time
  \/ /\ ScheduleReturned
     /\ \/ RLe(args.principal, Zero)
        \/ NegativeRate(args.annualInterestRate)
        \/ args.numberOfInstallments <= 0
  \/ /\ TenureReturned
     /\ \/ RLe(args.principal, Zero)
        \/ NegativeRate(args.annualInterestRate)
  \/ /\ PrepaymentReturned
     /\ \/ RLe(args.loanDetails.principal, Zero)
        \/ NegativeRate(args.loanDetails.annualInterestRate)
        \/ args.loanDetails.numberOfInstallments <= 0
  \/ /\ PrincipalFromEMIReturned
     /\ \/ NegativeRate(args.annualInterestRate)
        \/ args.numberOfInstallments <= 0

\* C15: calculateTotalAmountDue, generateAmortizationSchedule,
\* calculateNumberOfInstallments, calculatePrepaymentEffect and
\* calculatePrincipalFromEMI return no result when given a principal <= 0, a
\* negative rate, a due date earlier than the issue date, or an installment
\* count <= 0: each fails.
C15_InvalidInputNeverAnswered == InvalidCoreInput => ~out.ok

\* The fields of a returned record that are amounts of money.
MoneyFields ==
  {"totalAmount", "interestAmount", "totalAmountDue", "emiAmount", "principalComponent",
   "interestComponent", "remainingBalance", "newPrincipal", "newEMI", "originalEMI",
   "emiReduced", "interestSaved", "principalPortion", "interestPortion", "principal",
   "totalInterest"}

MoneyRounded(record) ==
  \A f \in DOMAIN record \cap MoneyFields : IsWholeCents(record[f])

\* C16: every monetary value returned by a core operation is a whole number
\* of cents, on every return path and also for inputs that are not whole
\* cents.
C16_ReturnedMoneyRounded ==
  (pc = "done" /\ out.ok) =>
    CASE op \in {"calculateSimpleInterest", "calculateAccruedInterest", "calculateEMI"} ->
           IsWholeCents(out.value)
      [] op = "generateAmortizationSchedule" ->
           \A i \in 1 .. Len(out.value) : MoneyRounded(out.value[i])
      [] op = "calculateNumberOfInstallments" -> TRUE
      [] OTHER -> MoneyRounded(out.value)

\* C17: calculateAccruedInterest never samples the system clock: its result
\* depends only on the arguments the caller passes, so a call repeated with
\* identical arguments at a later time returns the same amount as the earlier
\* call.
C17_NoClockDependence ==
  (AccruedInterestReturned /\ earlier # NoArgs) => out = earlier

\* The present value of n installments of 1 at ratePerPeriod:
\* 1 / (1 + r) + ... + 1 / (1 + r)^n.
RECURSIVE AnnuityFactor(_, _)
AnnuityFactor(ratePerPeriod, n) ==
  IF n = 0 THEN Zero
  ELSE RAdd(AnnuityFactor(ratePerPeriod, n - 1),
            RDiv(One, MathPow(RAdd(One, ratePerPeriod), n)))

\* The rate per period of the call that returned, 0 when the rate is absent.
RatePerPeriodOfCall ==
  IF IsFalsy(args.annualInterestRate) THEN Zero
  ELSE RatePerPeriod(args.annualInterestRate, args.paymentFrequency)

\* The principals P > 0 whose EMI, for the installments, rate and frequency
\* of the call, is the emiAmount of the call.
PrincipalsOfEMI ==
  {P \in Principals :
     /\ RLt(Zero, P)
     /\ calculateEMI(P, args.annualInterestRate, args.numberOfInstallments,
                     args.paymentFrequency) = Return(args.emiAmount)}

\* C18: calculatePrincipalFromEMI inverts calculateEMI: for P > 0 and n > 0
\* the principal it derives from calculateEMI(P, rate, n, f) is P up to the
\* rounding of the EMI (half a cent on each of the n installments, discounted,
\* and half a cent on the returned principal); for rate 0 it returns
\* principal = emi x installments and totalInterest = 0.
C18_InverseOfEMI ==
  (PrincipalFromEMIReturned /\ args.numberOfInstallments > 0) =>
    /\ out.ok
    /\ IsFalsy(args.annualInterestRate) =>
         /\ out.value.principal = RMul(args.emiAmount, RInt(args.numberOfInstallments))
         /\ out.value.totalInterest = Zero
    /\ \A P \in PrincipalsOfEMI :
         LET tolerance == RDiv(RAdd(AnnuityFactor(RatePerPeriodOfCall,
                                                  args.numberOfInstallments), One),
                               RInt(200))
             diff == RSub(out.value.principal, P)
         IN  RLe(RNeg(tolerance), diff) /\ RLe(diff, tolerance)

\* The EMI of 10.00 over five installments at a non-zero rate was turned back
\* into a principal.
C18_Witness ==
  /\ PrincipalFromEMIReturned
  /\ args.numberOfInstallments = 5
  /\ ~IsFalsy(args.annualInterestRate) /\ RLt(Zero, args.annualInterestRate)
  /\ Cents(1000) \in PrincipalsOfEMI
  /\ out.ok

\* A simple-interest call with principal > 0, rate >= 0 and days >= 0 returned.
ValidSimpleInterestReturned ==
  /\ SimpleInterestReturned
  /\ RLt(Zero, args.principal)
  /\ RLe(Zero, args.ratePerAnnum)
  /\ args.timeInDays >= 0

\* What the interest of the whole period of the call differs by from the
\* interest of its first d1 days plus the interest of the remaining days.
SplitDifference(d1) ==
  RSub(out.value,
       RAdd(calculateSimpleInterest(args.principal, args.ratePerAnnum, d1).value,
            calculateSimpleInterest(args.principal, args.ratePerAnnum,
                                    args.timeInDays - d1).value))

\* C19 as stated: for principal > 0, rate >= 0 and days >= 0 the simple
\* interest is non-negative, is 0 at rate 0, and is linear in days: the
\* interest for d1 + d2 days equals the interest for d1 days plus the interest
\* for d2 days.
C19_SimpleInterestLinear ==
  ValidSimpleInterestReturned =>
    /\ out.ok
    /\ RLe(Zero, out.value)
    /\ args.ratePerAnnum = Zero => out.value = Zero
    /\ \A d1 \in 0..args.timeInDays : SplitDifference(d1) = Zero

\* C19 amended: for principal > 0, rate >= 0 and days >= 0 the simple
\* interest is non-negative, is 0 at rate 0, and the interest for d1 + d2 days
\* is within one cent of the interest for d1 days plus the interest for d2
\* days (each of the three amounts is rounded to cents on its own).
C19_SimpleInterestLinearWithinCent ==
  ValidSimpleInterestReturned =>
    /\ out.ok
    /\ RLe(Zero, out.value)
    /\ args.ratePerAnnum = Zero => out.value = Zero
    /\ \A d1 \in 0..args.timeInDays :
         /\ RLe(Cents(-1), SplitDifference(d1))
         /\ RLe(SplitDifference(d1), Cents(1))

\* Interest was returned for a period that splits into two parts whose
\* interests do not add up to it exactly.
C19_Witness ==
  /\ ValidSimpleInterestReturned
  /\ out.ok
  /\ RLt(Zero, out.value)
  /\ \E d1 \in 0..args.timeInDays : SplitDifference(d1) # Zero


\* A compound-interest call with principal > 0, rate >= 0 and days >= 0
\* returned.
ValidCompoundInterestReturned ==
  /\ CompoundInterestReturned
  /\ RLt(Zero, args.principal)
  /\ RLe(Zero, args.ratePerAnnum)
  /\ args.timeInDays >= 0

\* The interestAmount of the call's principal, rate and days under another
\* compounding frequency.
InterestAmountUnder(compoundFrequency) ==
  calculateCompoundInterest(args.principal, args.ratePerAnnum, args.timeInDays,
                            compoundFrequency).value.interestAmount

\* C20: for fixed principal > 0, rate >= 0 and days >= 0 the interestAmount of
\* calculateCompoundInterest under daily compounding is at least that under
\* monthly compounding, which is at least that under yearly compounding.
C20_DenserCompoundingEarnsMore ==
  ValidCompoundInterestReturned =>
    /\ out.ok
    /\ args.compoundFrequency = "daily" =>
         RLe(InterestAmountUnder("monthly"), out.value.interestAmount)
    /\ args.compoundFrequency = "monthly" =>
         RLe(InterestAmountUnder("yearly"), out.value.interestAmount)

\* The documented comparison under daily compounding: it earned strictly more
\* than monthly compounding, which earns strictly more than yearly.
C20_Witness ==
  /\ ValidCompoundInterestReturned
  /\ args \in DocumentedCompoundings
  /\ args.compoundFrequency = "daily"
  /\ out.ok
  /\ RLt(InterestAmountUnder("monthly"), out.value.interestAmount)
  /\ RLt(InterestAmountUnder("yearly"), InterestAmountUnder("monthly"))


\* C21: in every entry of a generated schedule emiAmount equals
\* principalComponent + interestComponent to the cent, and every entry except
\* the last carries the same emiAmount, the one calculateEMI returns for the
\* loan terms.
C21_EntryComposition ==
  (ScheduleReturned /\ out.ok) =>
    \A i \in 1 .. Len(out.value) :
      /\ out.value[i].emiAmount =
           RAdd(out.value[i].principalComponent, out.value[i].interestComponent)
      /\ i < Len(out.value) =>
           out.value[i].emiAmount =
             calculateEMI(args.principal, args.annualInterestRate,
                          args.numberOfInstallments, args.paymentFrequency).value

(***************************************************************************)
(* The app's copy of the core (app/src/utils/emiCalculator.ts and          *)
(* app/src/utils/interestCalculator.ts).                                   *)
(***************************************************************************)
\* The value of a frequency argument that was left out.
NotSupplied == "undefined"

\* frequencyMap[frequency] || 12, the map holding one_time and custom too
app_getPeriodsPerYear(frequency) ==
  CASE frequency = "daily" -> 365
    [] frequency = "weekly" -> 52
    [] frequency = "biweekly" -> 26
    [] frequency = "monthly" -> 12
    [] frequency = "quarterly" -> 4
    [] frequency = "yearly" -> 1
    [] frequency = "one_time" -> 1
    [] frequency = "custom" -> 12
    [] OTHER -> 12

app_getNextPaymentDate(currentDate, frequency, customDays) ==
  CASE frequency = "daily" -> MakeDate(currentDate.y, currentDate.m, currentDate.d + 1)
    [] frequency = "weekly" -> MakeDate(currentDate.y, currentDate.m, currentDate.d + 7)
    [] frequency = "biweekly" -> MakeDate(currentDate.y, currentDate.m, currentDate.d + 14)
    [] frequency = "monthly" -> MakeDate(currentDate.y, currentDate.m + 1, currentDate.d)
    [] frequency = "quarterly" -> MakeDate(currentDate.y, currentDate.m + 3, currentDate.d)
    [] frequency = "yearly" -> MakeDate(currentDate.y + 1, currentDate.m, currentDate.d)
    [] frequency = "custom" ->
         IF customDays # 0
         THEN MakeDate(currentDate.y, currentDate.m, currentDate.d + customDays)
         ELSE currentDate
    [] OTHER -> MakeDate(currentDate.y, currentDate.m + 1, currentDate.d)

\* annualInterestRate / 100 / periodsPerYear
app_RatePerPeriod(annualInterestRate, paymentFrequency) ==
  RDiv(RDiv(annualInterestRate, RInt(100)), RInt(app_getPeriodsPerYear(paymentFrequency)))

app_calculateEMI(principal, annualInterestRate, numberOfInstallments, paymentFrequency) ==
  IF RLe(principal, Zero) THEN Throw("Principal must be positive")
  ELSE IF numberOfInstallments <= 0 THEN Throw("Number of installments must be positive")
  ELSE IF IsFalsy(annualInterestRate)
  THEN Return(toFixed2(RDiv(principal, RInt(numberOfInstallments))))
  ELSE
    LET ratePerPeriod == app_RatePerPeriod(annualInterestRate, paymentFrequency)
        growthNum == BigPow(BigOf(ratePerPeriod.num + ratePerPeriod.den), numberOfInstallments)
        growthDen == BigPow(BigOf(ratePerPeriod.den), numberOfInstallments)
        emiNum == BigMul(BigOf(principal.num), BigMul(BigOf(Abs(ratePerPeriod.num)), growthNum))
        emiDen == BigMul(BigOf(principal.den),
                         BigMul(BigOf(ratePerPeriod.den),
                                IF ratePerPeriod.num > 0
                                THEN BigSub(growthNum, growthDen)
                                ELSE BigSub(growthDen, growthNum)))
    IN  Return(toFixed2OfRoot(One, Zero, emiNum, emiDen, 1))

\* The entry pushed for one installment (emiCalculator.ts:82-94).
app_ScheduleEntry(installmentNumber, numberOfInstallments, emi, interestForPeriod, principalForPeriod, remainingBalance, currentDate) ==
  LET isLastInstallment == installmentNumber = numberOfInstallments
      adjustedPrincipal == IF isLastInstallment
                           THEN RAdd(principalForPeriod, remainingBalance)
                           ELSE principalForPeriod
      adjustedEMI == IF isLastInstallment THEN RAdd(emi, remainingBalance) ELSE emi
      adjustedBalance == IF isLastInstallment THEN Zero ELSE remainingBalance
  IN  [installmentNumber |-> installmentNumber,
       dueDate |-> currentDate,
       emiAmount |-> toFixed2(adjustedEMI),
       principalComponent |-> toFixed2(adjustedPrincipal),
       interestComponent |-> toFixed2(interestForPeriod),
       remainingBalance |-> toFixed2(RMax(Zero, adjustedBalance))]

\* The for loop from installmentNumber on (emiCalculator.ts:76-97).
RECURSIVE app_ScheduleLoop(_, _, _, _, _, _, _)
app_ScheduleLoop(installmentNumber, numberOfInstallments, emi, ratePerPeriod, remainingBalance, currentDate, paymentFrequency) ==
  IF installmentNumber > numberOfInstallments THEN <<>>
  ELSE
    LET interestForPeriod == RMul(remainingBalance, ratePerPeriod)
        principalForPeriod == RSub(emi, interestForPeriod)
        newBalance == RSub(remainingBalance, principalForPeriod)
    IN  <<app_ScheduleEntry(installmentNumber, numberOfInstallments, emi,
                            interestForPeriod, principalForPeriod, newBalance, currentDate)>>
        \o app_ScheduleLoop(installmentNumber + 1, numberOfInstallments, emi,
                            ratePerPeriod, newBalance,
                            app_getNextPaymentDate(currentDate, paymentFrequency, 0),
                            paymentFrequency)

\* The schedule once the EMI is known (emiCalculator.ts:69-99).
app_ScheduleWithEMI(loanDetails, emi) ==
  LET ratePerPeriod == IF ~IsFalsy(loanDetails.annualInterestRate)
                       THEN app_RatePerPeriod(loanDetails.annualInterestRate,
                                              loanDetails.paymentFrequency)
                       ELSE Zero
  IN  IF ~emi.ok THEN emi
      ELSE Return(app_ScheduleLoop(1, loanDetails.numberOfInstallments, emi.value,
                                   ratePerPeriod, loanDetails.principal,
                                   loanDetails.firstPaymentDate,
                                   loanDetails.paymentFrequency))

app_generateAmortizationSchedule(loanDetails) ==
  app_ScheduleWithEMI(loanDetails,
                      app_calculateEMI(loanDetails.principal, loanDetails.annualInterestRate,
                                       loanDetails.numberOfInstallments,
                                       loanDetails.paymentFrequency))

app_calculateNumberOfInstallments(principal, emiAmount, annualInterestRate, paymentFrequency) ==
  IF RLe(emiAmount, Zero) \/ RLe(principal, Zero)
  THEN Throw("EMI and principal must be positive")
  ELSE IF IsFalsy(annualInterestRate)
  THEN Return(MathCeil(RDiv(principal, emiAmount)))
  ELSE
    LET ratePerPeriod == app_RatePerPeriod(annualInterestRate, paymentFrequency)
        minEMI == RMul(principal, ratePerPeriod)
    IN  IF RLe(emiAmount, minEMI) THEN Throw(TooLowMessage)
        ELSE Return(CeilLog(RDiv(emiAmount, RSub(emiAmount, minEMI)),
                            RAdd(One, ratePerPeriod)))

app_calculateSimpleInterest(principal, ratePerAnnum, timeInDays) ==
  IF RLe(principal, Zero) \/ RLt(ratePerAnnum, Zero) \/ timeInDays < 0
  THEN Throw(InvalidInputMessage)
  ELSE LET timeInYears == Rat(timeInDays, 365)
           interest == RDiv(RMul(RMul(principal, ratePerAnnum), timeInYears), RInt(100))
       IN  Return(toFixed2(interest))

\* frequencyMap[compoundFrequency] || 12
app_compoundFrequencyMap(compoundFrequency) ==
  CASE compoundFrequency = "daily" -> 365
    [] compoundFrequency = "weekly" -> 52
    [] compoundFrequency = "biweekly" -> 26
    [] compoundFrequency = "monthly" -> 12
    [] compoundFrequency = "quarterly" -> 4
    [] compoundFrequency = "yearly" -> 1
    [] OTHER -> 12

app_calculateCompoundInterest(principal, ratePerAnnum, timeInDays, compoundFrequency) ==
  IF RLe(principal, Zero) \/ RLt(ratePerAnnum, Zero) \/ timeInDays < 0
  THEN Throw(InvalidInputMessage)
  ELSE
    LET rateDecimal == RDiv(ratePerAnnum, RInt(100))
        timeInYears == Rat(timeInDays, 365)
        n == app_compoundFrequencyMap(compoundFrequency)
        base == RAdd(One, RDiv(rateDecimal, RInt(n)))
        exponent == RMul(RInt(n), timeInYears)
        powerNum == BigPow(BigOf(base.num), exponent.num)
        powerDen == BigPow(BigOf(base.den), exponent.num)
    IN  Return([totalAmount |->
                  toFixed2OfRoot(principal, Zero, powerNum, powerDen, exponent.den),
                interestAmount |->
                  toFixed2OfRoot(principal, principal, powerNum, powerDen, exponent.den)])

\* The interest over timeInDays by interestType; compound interest is worked
\* out only with a compoundFrequency (interestCalculator.ts:92-99, 122-129).
app_InterestByType(principal, ratePerAnnum, timeInDays, interestType, compoundFrequency) ==
  IF interestType = "simple"
  THEN app_calculateSimpleInterest(principal, ratePerAnnum, timeInDays)
  ELSE IF interestType = "compound" /\ compoundFrequency # NotSupplied
  THEN InterestAmountOf(app_calculateCompoundInterest(principal, ratePerAnnum, timeInDays,
                                                      compoundFrequency))
  ELSE Return(Zero)

\* The amounts returned once the interest is known (interestCalculator.ts:
\* 101-104).
app_TotalAmountDueWith(loanDetails, interest) ==
  IF ~interest.ok THEN interest
  ELSE Return([totalAmountDue |->
                 toFixed2(RAdd(loanDetails.principalAmount, interest.value)),
               interestAmount |-> toFixed2(interest.value)])

app_calculateTotalAmountDue(loanDetails) ==
  IF loanDetails.interestType = "none" \/ IsFalsy(loanDetails.interestRate)
  THEN Return([totalAmountDue |-> loanDetails.principalAmount, interestAmount |-> Zero])
  ELSE app_TotalAmountDueWith(loanDetails,
                              app_InterestByType(loanDetails.principalAmount,
                                                 loanDetails.interestRate,
                                                 DaysBetween(loanDetails.issueDate,
                                                             loanDetails.dueDate),
                                                 loanDetails.interestType,
                                                 loanDetails.compoundFrequency))

app_calculatePeriodInterest(principal, ratePerAnnum, startDate, endDate, interestType, compoundFrequency) ==
  LET timeInDays == DaysBetween(startDate, endDate)
  IN  IF timeInDays <= 0 THEN Return(Zero)
      ELSE app_InterestByType(principal, ratePerAnnum, timeInDays, interestType,
                              compoundFrequency)

app_calculatePaymentBreakdown(paymentAmount, accruedInterest, outstandingPrincipal) ==
  LET interestPortion == RMin(paymentAmount, accruedInterest)
      uncapped == RMax(Zero, RSub(paymentAmount, interestPortion))
      principalPortion == IF RLt(outstandingPrincipal, uncapped)
                          THEN outstandingPrincipal
                          ELSE uncapped
  IN  [principalPortion |-> toFixed2(principalPortion),
       interestPortion |-> toFixed2(interestPortion)]

app_calculateAccruedInterest(loanDetails, currentDate, systemClock) ==
  app_calculatePeriodInterest(loanDetails.principalAmount, loanDetails.interestRate,
                              loanDetails.lastCalculationDate,
                              IF currentDate = Undefined THEN systemClock ELSE currentDate,
                              loanDetails.interestType, loanDetails.compoundFrequency)

(***************************************************************************)
(* The app's services over its loans and payments tables                   *)
(* (app/src/services/loanService.ts, the payment service and the tables'   *)
(* defaults).  A row carries the columns the services read or write; the   *)
(* descriptive columns (counterparty, notes, createdAt, ...) are left out. *)
(***************************************************************************)
\* The value null of a column or of a result.
Null == [null |-> TRUE]

\* x || 0 for a number, null or undefined.
OrZero(x) == IF x = Null \/ x = Undefined \/ x = Zero THEN Zero ELSE x

\* s || dflt for a string that may be left out.
OrString(s, dflt) == IF s = NotSupplied THEN dflt ELSE s

\* The day of the calendar on which Date(0) falls, and the calendar day of a
\* Date.
OriginDate == [y |-> 2024, m |-> 1, d |-> 1]

CalendarDate(date) == MakeDate(OriginDate.y, OriginDate.m, OriginDate.d + date.time \div 24)

\* Date.now() + 365 * 24 * 60 * 60 * 1000
OneYearAfter(now) == Date(now.time + 365 * 24)

LoanById(rows, loanId) == CHOOSE l \in rows : l.id = loanId

PaymentById(rows, paymentId) == CHOOSE p \in rows : p.id = paymentId

\* db.update(table).set(...).where(eq(table.id, id)): the row with that id is
\* replaced.
WithRow(rows, row) == {r \in rows : r.id # row.id} \cup {row}

\* The row createLoan inserts once the amounts are known (loanService.ts:
\* 51-75); due and emi are results whose Error goes on to the caller.
app_LoanRow(input, id, now, due, emi) ==
  IF ~due.ok THEN due
  ELSE IF ~emi.ok THEN emi
  ELSE Return([id |-> id,
               userId |-> input.userId,
               principalAmount |-> input.principalAmount,
               issueDate |-> input.issueDate,
               dueDate |-> IF input.dueDate = Undefined THEN Null ELSE input.dueDate,
               interestRate |-> IF input.interestRate = Undefined THEN Zero
                                ELSE input.interestRate,
               interestType |-> OrString(input.interestType, "none"),
               compoundFrequency |-> input.compoundFrequency,
               paymentFrequency |-> OrString(input.paymentFrequency, "monthly"),
               numberOfInstallments |-> input.numberOfInstallments,
               emiAmount |-> emi.value,
               totalAmountDue |-> due.value.totalAmountDue,
               totalPaid |-> Zero,
               outstandingBalance |-> due.value.totalAmountDue,
               status |-> OrString(input.status, "active"),
               closedAt |-> Null,
               updatedAt |-> now])

\* numberOfInstallments 0 stands for a count that was left out.
app_createLoan(input, id, now) ==
  app_LoanRow(input, id, now,
              app_calculateTotalAmountDue(
                [principalAmount |-> input.principalAmount,
                 interestRate |-> OrZero(input.interestRate),
                 issueDate |-> input.issueDate,
                 dueDate |-> IF input.dueDate # Undefined THEN input.dueDate
                             ELSE OneYearAfter(now),
                 interestType |-> OrString(input.interestType, "none"),
                 compoundFrequency |-> input.compoundFrequency]),
              IF input.numberOfInstallments > 0
              THEN app_calculateEMI(input.principalAmount, OrZero(input.interestRate),
                                    input.numberOfInstallments,
                                    OrString(input.paymentFrequency, "monthly"))
              ELSE Return(Null))

\* getLoanById(loanId, userId): the loan of that user, or null.
app_getLoanById(rows, loanId, userId) ==
  IF \E l \in rows : l.id = loanId /\ l.userId = userId
  THEN LoanById(rows, loanId)
  ELSE Null

\* { ...input, updatedAt: new Date() } laid over the stored row: a field the
\* input supplies replaces the row's.
app_LoanWithInput(existingLoan, input, now) ==
  [existingLoan EXCEPT
     !.principalAmount = IF input.principalAmount # Undefined
                         THEN input.principalAmount ELSE @,
     !.interestRate = IF input.interestRate # Undefined THEN input.interestRate ELSE @,
     !.dueDate = IF input.dueDate # Undefined THEN input.dueDate ELSE @,
     !.interestType = OrString(input.interestType, @),
     !.compoundFrequency = OrString(input.compoundFrequency, @),
     !.status = OrString(input.status, @),
     !.updatedAt = now]

app_Recalculates(input) ==
  \/ input.principalAmount # Undefined
  \/ input.interestRate # Undefined
  \/ input.dueDate # Undefined
  \/ input.interestType # NotSupplied
  \/ input.compoundFrequency # NotSupplied

\* The row updateLoan stores once the recalculated amount is known
\* (loanService.ts:177-184).
app_UpdatedLoan(existingLoan, input, now, due) ==
  IF ~app_Recalculates(input) THEN Return(app_LoanWithInput(existingLoan, input, now))
  ELSE IF ~due.ok THEN due
  ELSE Return([app_LoanWithInput(existingLoan, input, now) EXCEPT
                 !.totalAmountDue = due.value.totalAmountDue,
                 !.outstandingBalance = RSub(due.value.totalAmountDue,
                                             OrZero(existingLoan.totalPaid))])

\* The result is the updated row, null when the user has no such loan.
app_updateLoan(rows, loanId, userId, input, now) ==
  IF app_getLoanById(rows, loanId, userId) = Null THEN Return(Null)
  ELSE app_UpdatedLoan(
         LoanById(rows, loanId), input, now,
         app_calculateTotalAmountDue(
           [principalAmount |-> IF IsFalsy(input.principalAmount)
                                THEN LoanById(rows, loanId).principalAmount
                                ELSE input.principalAmount,
            interestRate |-> IF input.interestRate # Undefined THEN input.interestRate
                             ELSE OrZero(LoanById(rows, loanId).interestRate),
            issueDate |-> LoanById(rows, loanId).issueDate,
            dueDate |-> IF input.dueDate # Undefined THEN input.dueDate
                        ELSE IF LoanById(rows, loanId).dueDate # Null
                        THEN LoanById(rows, loanId).dueDate
                        ELSE now,
            interestType |-> OrString(input.interestType,
                                      LoanById(rows, loanId).interestType),
            compoundFrequency |-> OrString(input.compoundFrequency,
                                           LoanById(rows, loanId).compoundFrequency)]))

PaymentsOfLoan(rows, loanId) == {p \in rows : p.loanId = loanId}

app_DeleteMessage == "Cannot delete loan with existing payments"

app_deleteLoan_Unchecked(loanRows, paymentRows, loanId, userId) ==
  [loans |-> {l \in loanRows : ~(l.id = loanId /\ l.userId = userId)},
   result |-> Return(TRUE)]

\* The loans left and the result of deleteLoan.
app_deleteLoan(loanRows, paymentRows, loanId, userId) ==
  IF PaymentsOfLoan(paymentRows, loanId) # {}
  THEN [loans |-> loanRows, result |-> Throw(app_DeleteMessage)]
  ELSE [loans |-> {l \in loanRows : ~(l.id = loanId /\ l.userId = userId)},
        result |-> Return(TRUE)]

\* The accrued interest recordPayment works out from the loan it read; a
\* result, since the calculation may throw.
app_AccruedInterestOf(loan, input) ==
  IF loan.interestType # "none" /\ ~IsFalsy(OrZero(loan.interestRate))
  THEN app_calculateAccruedInterest(
         [principalAmount |-> OrZero(loan.outstandingBalance),
          interestRate |-> loan.interestRate,
          lastCalculationDate |-> loan.updatedAt,
          interestType |-> loan.interestType,
          compoundFrequency |-> loan.compoundFrequency],
         input.paymentDate, input.paymentDate)
  ELSE Return(Zero)

\* The payment row recordPayment inserts, given the breakdown of the amount.
app_PaymentRowWith(loan, input, id, breakdown) ==
  [id |-> id,
   loanId |-> input.loanId,
   amount |-> input.amount,
   paymentDate |-> input.paymentDate,
   status |-> OrString(input.status, "completed"),
   principalPortion |-> breakdown.principalPortion,
   interestPortion |-> breakdown.interestPortion,
   balanceAfterPayment |-> RMax(Zero, RSub(OrZero(loan.outstandingBalance),
                                           breakdown.principalPortion))]

app_PaymentRow(loan, input, id, accruedInterest) ==
  app_PaymentRowWith(loan, input, id,
                     app_calculatePaymentBreakdown(input.amount, accruedInterest,
                                                   OrZero(loan.outstandingBalance)))

\* The status recordPayment derives from the loan it read.
app_StatusAfterPayment(loan, newTotalPaid, newOutstandingBalance) ==
  IF RLe(newOutstandingBalance, Zero) THEN "fully_paid"
  ELSE IF RLt(Zero, newTotalPaid) THEN "partially_paid"
  ELSE loan.status

\* The stored loan row after recordPayment's update, whose values come from
\* the loan the call read earlier.
app_LoanAfterPayment(stored, loan, input, now) ==
  LET newTotalPaid == RAdd(OrZero(loan.totalPaid), input.amount)
      newOutstandingBalance == RSub(OrZero(loan.totalAmountDue), newTotalPaid)
      newStatus == app_StatusAfterPayment(loan, newTotalPaid, newOutstandingBalance)
  IN  [stored EXCEPT
         !.totalPaid = newTotalPaid,
         !.outstandingBalance = RMax(Zero, newOutstandingBalance),
         !.status = newStatus,
         !.closedAt = IF newStatus = "fully_paid" THEN now ELSE Null,
         !.updatedAt = now]

\* recordPayment run without interruption, given the accrued interest: the
\* tables it leaves and its result.
app_RecordedWith(loanRows, paymentRows, input, id, now, accrued) ==
  IF ~accrued.ok
  THEN [loans |-> loanRows, payments |-> paymentRows, result |-> accrued]
  ELSE [loans |-> WithRow(loanRows,
                          app_LoanAfterPayment(LoanById(loanRows, input.loanId),
                                               LoanById(loanRows, input.loanId),
                                               input, now)),
        payments |-> paymentRows \cup
                       {app_PaymentRow(LoanById(loanRows, input.loanId), input, id,
                                       accrued.value)},
        result |-> Return([payment |-> id])]

app_recordPayment(loanRows, paymentRows, input, id, now) ==
  IF ~\E l \in loanRows : l.id = input.loanId
  THEN [loans |-> loanRows, payments |-> paymentRows, result |-> Throw("Loan not found")]
  ELSE app_RecordedWith(loanRows, paymentRows, input, id, now,
                        app_AccruedInterestOf(LoanById(loanRows, input.loanId), input))

\* The payments table after updatePayment and its result: the stored row
\* takes the fields the input supplies; no loan is read or written.
app_updatePayment(paymentRows, paymentId, input) ==
  IF ~\E p \in paymentRows : p.id = paymentId
  THEN [payments |-> paymentRows, result |-> Return(Null)]
  ELSE [payments |->
          WithRow(paymentRows,
                  [PaymentById(paymentRows, paymentId) EXCEPT
                     !.amount = IF input.amount # Undefined THEN input.amount ELSE @,
                     !.status = OrString(input.status, @)]),
        result |-> Return([payment |-> paymentId])]

\* The loan row deletePayment writes back for the payment it removes.
app_LoanAfterDeletion(loan, payment, now) ==
  LET newTotalPaid == RSub(OrZero(loan.totalPaid), payment.amount)
      newOutstandingBalance == RSub(OrZero(loan.totalAmountDue), newTotalPaid)
      newStatus == IF RLe(newOutstandingBalance, Zero) THEN "fully_paid"
                   ELSE IF RLt(Zero, newTotalPaid) THEN "partially_paid"
                   ELSE "active"
  IN  [loan EXCEPT
         !.totalPaid = RMax(Zero, newTotalPaid),
         !.outstandingBalance = RMax(Zero, newOutstandingBalance),
         !.status = newStatus,
         !.updatedAt = now]

app_deletePayment(loanRows, paymentRows, paymentId, now) ==
  IF ~\E p \in paymentRows : p.id = paymentId
  THEN [loans |-> loanRows, payments |-> paymentRows, result |-> Return(FALSE)]
  ELSE [loans |->
          IF \E l \in loanRows : l.id = PaymentById(paymentRows, paymentId).loanId
          THEN WithRow(loanRows,
                       app_LoanAfterDeletion(
                         LoanById(loanRows, PaymentById(paymentRows, paymentId).loanId),
                         PaymentById(paymentRows, paymentId), now))
          ELSE loanRows,
        payments |-> {p \in paymentRows : p.id # paymentId},
        result |-> Return(TRUE)]

\* The orders in which a query sorted by paymentDate may return the rows:
\* rows of the same paymentDate come in any order.
OrderedByPaymentDate(rows) ==
  {s \in [1 .. Cardinality(rows) -> rows] :
     /\ \A i, j \in 1 .. Cardinality(rows) : i # j => s[i] # s[j]
     /\ \A i, j \in 1 .. Cardinality(rows) :
          i < j => s[i].paymentDate.time <= s[j].paymentDate.time}

\* schedule.forEach of the app: the installment at index takes the payment at
\* the same index when that payment is completed.
app_MarkPaid(schedule, loanPayments) ==
  [i \in 1 .. Len(schedule) |->
     IF i <= Len(loanPayments) /\ loanPayments[i].status = "completed"
     THEN [entry |-> schedule[i], isPaid |-> TRUE,
           paidDate |-> loanPayments[i].paymentDate,
           paidAmount |-> loanPayments[i].amount]
     ELSE [entry |-> schedule[i], isPaid |-> FALSE,
           paidDate |-> Undefined, paidAmount |-> Undefined]]

\* The result once the schedule is generated; loanPayments is the loan's
\* payments as the query returned them.
app_AmortizationWith(schedule, loanPayments) ==
  IF ~schedule.ok THEN schedule
  ELSE Return([schedule |-> app_MarkPaid(schedule.value, loanPayments)])

app_getLoanAmortization(loanRows, loanId, userId, loanPayments) ==
  IF app_getLoanById(loanRows, loanId, userId) = Null THEN Throw("Loan not found")
  ELSE IF LoanById(loanRows, loanId).numberOfInstallments = 0
  THEN Throw("Loan does not have installment schedule")
  ELSE app_AmortizationWith(
         app_generateAmortizationSchedule(
           [principal |-> LoanById(loanRows, loanId).principalAmount,
            annualInterestRate |-> OrZero(LoanById(loanRows, loanId).interestRate),
            numberOfInstallments |-> LoanById(loanRows, loanId).numberOfInstallments,
            paymentFrequency |-> OrString(LoanById(loanRows, loanId).paymentFrequency,
                                          "monthly"),
            firstPaymentDate |->
              MakeDate(CalendarDate(LoanById(loanRows, loanId).issueDate).y,
                       CalendarDate(LoanById(loanRows, loanId).issueDate).m + 1,
                       CalendarDate(LoanById(loanRows, loanId).issueDate).d)]),
         loanPayments)

(***************************************************************************)
(* The backend's loan service over its Loan and Payment models             *)
(* (backend/src/services/loanService.js and the Loan model's beforeSave    *)
(* hook), and the database triggers that keep a loan's totals when a       *)
(* payment row is inserted (DATABASE_SCHEMA.md).                           *)
(***************************************************************************)
\* The catch blocks of the service rethrow with the operation named.
Rethrow(prefix, result) ==
  IF result.ok THEN result ELSE Throw(prefix \o result.error)

\* The status the hook and the trigger derive for a balance that is set.
StatusByBalance(loan, now) ==
  IF RLe(loan.outstandingBalance, Zero) THEN "fully_paid"
  ELSE IF RLt(Zero, loan.totalPaid) THEN "partially_paid"
  ELSE IF loan.dueDate # Null /\ loan.dueDate.time < now.time THEN "overdue"
  ELSE "active"

\* hooks.beforeSave of the Loan model, run on every create and update.
beforeSave(loan, now) ==
  LET balanced == IF loan.totalAmountDue # Null /\ loan.totalPaid # Null
                  THEN [loan EXCEPT
                          !.outstandingBalance = RSub(loan.totalAmountDue, loan.totalPaid)]
                  ELSE loan
  IN  IF balanced.outstandingBalance = Null THEN balanced
      ELSE [balanced EXCEPT
              !.status = StatusByBalance(balanced, now),
              !.closedAt = IF RLe(balanced.outstandingBalance, Zero) THEN now ELSE @]

\* The row Loan.create builds from the data and the model's defaults, before
\* the hook runs.
backend_LoanRow(loanData, userId, id, now, due, emi) ==
  IF ~due.ok THEN due
  ELSE IF ~emi.ok THEN emi
  ELSE Return([id |-> id,
               userId |-> userId,
               principalAmount |-> loanData.principalAmount,
               issueDate |-> loanData.issueDate,
               dueDate |-> IF loanData.dueDate = Undefined THEN Null ELSE loanData.dueDate,
               interestRate |-> IF loanData.interestRate = Undefined THEN Zero
                                ELSE loanData.interestRate,
               interestType |-> OrString(loanData.interestType, "none"),
               compoundFrequency |-> loanData.compoundFrequency,
               paymentFrequency |-> OrString(loanData.paymentFrequency, "monthly"),
               numberOfInstallments |-> loanData.numberOfInstallments,
               emiAmount |-> emi.value,
               totalAmountDue |-> due.value.totalAmountDue,
               totalPaid |-> Zero,
               outstandingBalance |-> due.value.totalAmountDue,
               status |-> OrString(loanData.status, "active"),
               closedAt |-> Null,
               updatedAt |-> now])

\* The stored row, for loanData that carries a dueDate.
backend_CreatedRow(row, now) ==
  IF row.ok THEN Return(beforeSave(row.value, now)) ELSE row

backend_createLoan(loanData, userId, id, now) ==
  Rethrow("Failed to create loan: ",
    backend_CreatedRow(
      backend_LoanRow(loanData, userId, id, now,
                      calculateTotalAmountDue(
                        [principalAmount |-> loanData.principalAmount,
                         interestRate |-> OrZero(loanData.interestRate),
                         issueDate |-> loanData.issueDate,
                         dueDate |-> loanData.dueDate,
                         interestType |-> OrString(loanData.interestType, "none"),
                         compoundFrequency |-> loanData.compoundFrequency]),
                      IF loanData.numberOfInstallments > 0
                      THEN calculateEMI(loanData.principalAmount,
                                        OrZero(loanData.interestRate),
                                        loanData.numberOfInstallments,
                                        OrString(loanData.paymentFrequency, "monthly"))
                      ELSE Return(Null)),
      now))

\* Loan.findOne({ where: { id: loanId, userId } })
backend_findOne(rows, loanId, userId) ==
  IF \E l \in rows : l.id = loanId /\ l.userId = userId
  THEN LoanById(rows, loanId)
  ELSE Null

\* { ...updateData } set on the loan: a field the data supplies replaces the
\* loan's.
backend_LoanWithData(loan, updateData, now) ==
  [loan EXCEPT
     !.principalAmount = IF updateData.principalAmount # Undefined
                         THEN updateData.principalAmount ELSE @,
     !.interestRate = IF updateData.interestRate # Undefined
                      THEN updateData.interestRate ELSE @,
     !.dueDate = IF updateData.dueDate # Undefined THEN updateData.dueDate ELSE @,
     !.interestType = OrString(updateData.interestType, @),
     !.compoundFrequency = OrString(updateData.compoundFrequency, @),
     !.status = OrString(updateData.status, @),
     !.updatedAt = now]

backend_Recalculates(updateData) ==
  \/ ~IsFalsy(updateData.principalAmount)
  \/ ~IsFalsy(updateData.interestRate)
  \/ updateData.dueDate # Undefined

\* The row loan.update saves once the recalculated amount is known
\* (loanService.js:201-208), the hook having run.
backend_UpdatedLoan(loan, updateData, now, due) ==
  IF ~backend_Recalculates(updateData)
  THEN Return(beforeSave(backend_LoanWithData(loan, updateData, now), now))
  ELSE IF ~due.ok THEN due
  ELSE Return(beforeSave([backend_LoanWithData(loan, updateData, now) EXCEPT
                            !.totalAmountDue = due.value.totalAmountDue,
                            !.outstandingBalance = RSub(due.value.totalAmountDue,
                                                        loan.totalPaid)],
                         now))

backend_updateLoan(rows, loanId, userId, updateData, now) ==
  Rethrow("Failed to update loan: ",
    IF backend_findOne(rows, loanId, userId) = Null THEN Throw("Loan not found")
    ELSE backend_UpdatedLoan(
           LoanById(rows, loanId), updateData, now,
           calculateTotalAmountDue(
             [principalAmount |-> IF IsFalsy(updateData.principalAmount)
                                  THEN LoanById(rows, loanId).principalAmount
                                  ELSE updateData.principalAmount,
              interestRate |-> IF updateData.interestRate # Undefined
                               THEN updateData.interestRate
                               ELSE LoanById(rows, loanId).interestRate,
              issueDate |-> LoanById(rows, loanId).issueDate,
              dueDate |-> IF updateData.dueDate # Undefined THEN updateData.dueDate
                          ELSE LoanById(rows, loanId).dueDate,
              interestType |-> LoanById(rows, loanId).interestType,
              compoundFrequency |-> LoanById(rows, loanId).compoundFrequency])))

backend_DeleteMessage ==
  "Cannot delete loan with existing payments. Consider marking as written off instead."

\* The loans left and the result of deleteLoan.
backend_deleteLoan(loanRows, paymentRows, loanId, userId) ==
  IF backend_findOne(loanRows, loanId, userId) = Null
  THEN [loans |-> loanRows,
        result |-> Rethrow("Failed to delete loan: ", Throw("Loan not found"))]
  ELSE IF PaymentsOfLoan(paymentRows, loanId) # {}
  THEN [loans |-> loanRows,
        result |-> Rethrow("Failed to delete loan: ", Throw(backend_DeleteMessage))]
  ELSE [loans |-> {l \in loanRows : l.id # loanId},
        result |-> Return([message |-> "Loan deleted successfully"])]

\* schedule.forEach of the backend: the installment at index takes the
\* completed payment at the same index.
backend_MarkPaid(schedule, completedPayments) ==
  [i \in 1 .. Len(schedule) |->
     IF i <= Len(completedPayments)
     THEN [entry |-> schedule[i], isPaid |-> TRUE,
           paidDate |-> completedPayments[i].paymentDate,
           paidAmount |-> completedPayments[i].amount]
     ELSE [entry |-> schedule[i], isPaid |-> FALSE,
           paidDate |-> Undefined, paidAmount |-> Undefined]]

backend_AmortizationWith(schedule, completedPayments) ==
  IF ~schedule.ok THEN schedule
  ELSE Return([schedule |-> backend_MarkPaid(schedule.value, completedPayments)])

\* completedPayments is the loan's completed payments as the query returned
\* them.
backend_getLoanAmortization(loanRows, loanId, userId, completedPayments) ==
  Rethrow("Failed to generate amortization schedule: ",
    IF backend_findOne(loanRows, loanId, userId) = Null THEN Throw("Loan not found")
    ELSE IF LoanById(loanRows, loanId).numberOfInstallments = 0
    THEN Throw("Loan does not have installment schedule")
    ELSE backend_AmortizationWith(
           generateAmortizationSchedule(
             [principal |-> LoanById(loanRows, loanId).principalAmount,
              annualInterestRate |-> OrZero(LoanById(loanRows, loanId).interestRate),
              numberOfInstallments |-> LoanById(loanRows, loanId).numberOfInstallments,
              paymentFrequency |-> LoanById(loanRows, loanId).paymentFrequency,
              firstPaymentDate |->
                MakeDate(CalendarDate(LoanById(loanRows, loanId).issueDate).y,
                         CalendarDate(LoanById(loanRows, loanId).issueDate).m + 1,
                         CalendarDate(LoanById(loanRows, loanId).issueDate).d)]),
           completedPayments))

\* update_loan_status, the trigger BEFORE UPDATE ON loans.
update_loan_status(loan, now) ==
  LET balanced == [loan EXCEPT
                     !.outstandingBalance = RSub(loan.totalAmountDue, loan.totalPaid)]
  IN  [balanced EXCEPT
         !.status = StatusByBalance(balanced, now),
         !.closedAt = IF RLe(balanced.outstandingBalance, Zero) THEN now ELSE @]

\* update_loan_after_payment, the trigger AFTER INSERT ON payments: the
\* loan's total_paid takes the new amount, and that update fires
\* update_loan_status.
update_loan_after_payment(loanRows, payment, now) ==
  IF \E l \in loanRows : l.id = payment.loanId
  THEN WithRow(loanRows,
               update_loan_status(
                 [LoanById(loanRows, payment.loanId) EXCEPT
                    !.totalPaid = RAdd(@, payment.amount),
                    !.updatedAt = now],
                 now))
  ELSE loanRows

(***************************************************************************)
(* The service calls: each one runs to its end on the stored rows of the   *)
(* deployment that serves it.  The calls are made at the origin of time.   *)
(***************************************************************************)
\* Payment rows inserted in all.
MaxPayments == 2

\* A payment dated 73 days after the origin, in hours.
LaterHours == 73 * 24

LoanIds == {"loan1"}

\* u1 owns the loans; u2 is another user who calls the services.
Owners == {"u1"}

Callers == {"u1", "u2"}

PaymentIds == 1 .. MaxPayments

\* Interest-free terms repaid in two monthly installments, and 10% simple
\* interest without a schedule.
LoanTerms ==
  {[interestRate |-> Zero, interestType |-> "none", numberOfInstallments |-> 2],
   [interestRate |-> RInt(10), interestType |-> "simple", numberOfInstallments |-> 0]}

\* A loan of 200 issued at the origin and due a year later.
CreateLoanInputs ==
  {[userId |-> u, principalAmount |-> RInt(200), issueDate |-> Date(0),
    dueDate |-> Date(365 * 24), interestRate |-> t.interestRate,
    interestType |-> t.interestType, compoundFrequency |-> NotSupplied,
    paymentFrequency |-> NotSupplied, numberOfInstallments |-> t.numberOfInstallments,
    status |-> NotSupplied] :
     u \in Owners, t \in LoanTerms}

NoLoanChange ==
  [principalAmount |-> Undefined, interestRate |-> Undefined, dueDate |-> Undefined,
   interestType |-> NotSupplied, compoundFrequency |-> NotSupplied,
   status |-> NotSupplied]

\* The principal is corrected to 100, or the loan is marked written off.
UpdateLoanInputs ==
  {[NoLoanChange EXCEPT !.principalAmount = RInt(100)],
   [NoLoanChange EXCEPT !.status = "written_off"]}

\* A pending payment of 50 dated at the origin, and a payment of 50 or 150
\* dated later with no status given.
PaymentInputs ==
  {[loanId |-> l, amount |-> k.amount, paymentDate |-> k.paymentDate,
    status |-> k.status] :
     l \in LoanIds,
     k \in {[amount |-> RInt(50), paymentDate |-> Date(0), status |-> "pending"],
            [amount |-> RInt(50), paymentDate |-> Date(LaterHours),
             status |-> NotSupplied],
            [amount |-> RInt(150), paymentDate |-> Date(LaterHours),
             status |-> NotSupplied]}}

\* The amount is corrected to 50, or the payment is marked completed.
UpdatePaymentInputs ==
  {[amount |-> RInt(50), status |-> NotSupplied],
   [amount |-> Undefined, status |-> "completed"]}

\* The id a new payment row gets: one that no row had before.
NewPaymentId == issued + 1

HasRoomForPayment == issued < MaxPayments

LedgerInit ==
  /\ pc = "idle"
  /\ op = "none"
  /\ args = NoArgs
  /\ out = NoArgs
  /\ clock = Date(0)
  /\ earlier = NoArgs
  /\ loans = {}
  /\ payments = {}
  /\ issued = 0
  /\ deployment \in {"app", "backend"}
  /\ calls = <<>>

AppCreateLoan ==
  /\ deployment = "app"
  /\ \E input \in CreateLoanInputs, id \in LoanIds :
       /\ \A l \in loans : l.id # id
       /\ args' = [loanId |-> id]
       /\ out' = app_createLoan(input, id, clock)
       /\ loans' = IF out'.ok THEN loans \cup {out'.value} ELSE loans
  /\ op' = "createLoan"
  /\ pc' = "done"
  /\ UNCHANGED <<clock, earlier, payments, issued, deployment, calls>>

AppUpdateLoan ==
  /\ deployment = "app"
  /\ \E loanId \in LoanIds, userId \in Callers, input \in UpdateLoanInputs :
       /\ args' = [loanId |-> loanId, userId |-> userId]
       /\ out' = app_updateLoan(loans, loanId, userId, input, clock)
       /\ loans' = IF out'.ok /\ out'.value # Null THEN WithRow(loans, out'.value)
                   ELSE loans
  /\ op' = "updateLoan"
  /\ pc' = "done"
  /\ UNCHANGED <<clock, earlier, payments, issued, deployment, calls>>

AppDeleteLoan ==
  /\ deployment = "app"
  /\ \E loanId \in LoanIds, userId \in Callers :
       /\ args' = [loanId |-> loanId, userId |-> userId]
       /\ out' = app_deleteLoan(loans, payments, loanId, userId).result
       /\ loans' = app_deleteLoan(loans, payments, loanId, userId).loans
  /\ op' = "deleteLoan"
  /\ pc' = "done"
  /\ UNCHANGED <<clock, earlier, payments, issued, deployment, calls>>

AppGetLoanAmortization ==
  /\ deployment = "app"
  /\ \E loanId \in LoanIds, userId \in Callers :
       \E loanPayments \in OrderedByPaymentDate(PaymentsOfLoan(payments, loanId)) :
         /\ args' = [loanId |-> loanId, userId |-> userId]
         /\ out' = app_getLoanAmortization(loans, loanId, userId, loanPayments)
  /\ op' = "getLoanAmortization"
  /\ pc' = "done"
  /\ UNCHANGED <<clock, earlier, store>>

AppRecordPayment ==
  /\ deployment = "app"
  /\ HasRoomForPayment
  /\ \E input \in PaymentInputs :
       /\ args' = [loanId |-> input.loanId, amount |-> input.amount]
       /\ out' = app_recordPayment(loans, payments, input, NewPaymentId, clock).result
       /\ loans' = app_recordPayment(loans, payments, input, NewPaymentId, clock).loans
       /\ payments' =
            app_recordPayment(loans, payments, input, NewPaymentId, clock).payments
  /\ op' = "recordPayment"
  /\ pc' = "done"
  /\ UNCHANGED <<clock, earlier, deployment, calls>>
  /\ issued' = IF out'.ok THEN issued + 1 ELSE issued

AppUpdatePayment ==
  /\ deployment = "app"
  /\ \E paymentId \in PaymentIds, input \in UpdatePaymentInputs :
       /\ args' = [paymentId |-> paymentId]
       /\ out' = app_updatePayment(payments, paymentId, input).result
       /\ payments' = app_updatePayment(payments, paymentId, input).payments
  /\ op' = "updatePayment"
  /\ pc' = "done"
  /\ UNCHANGED <<clock, earlier, loans, issued, deployment, calls>>

AppDeletePayment ==
  /\ deployment = "app"
  /\ \E paymentId \in PaymentIds :
       /\ args' = [paymentId |-> paymentId]
       /\ out' = app_deletePayment(loans, payments, paymentId, clock).result
       /\ loans' = app_deletePayment(loans, payments, paymentId, clock).loans
       /\ payments' = app_deletePayment(loans, payments, paymentId, clock).payments
  /\ op' = "deletePayment"
  /\ pc' = "done"
  /\ UNCHANGED <<clock, earlier, issued, deployment, calls>>

BackendCreateLoan ==
  /\ deployment = "backend"
  /\ \E loanData \in CreateLoanInputs, id \in LoanIds :
       /\ \A l \in loans : l.id # id
       /\ args' = [loanId |-> id]
       /\ out' = backend_createLoan(loanData, loanData.userId, id, clock)
       /\ loans' = IF out'.ok THEN loans \cup {out'.value} ELSE loans
  /\ op' = "createLoan"
  /\ pc' = "done"
  /\ UNCHANGED <<clock, earlier, payments, issued, deployment, calls>>

BackendUpdateLoan ==
  /\ deployment = "backend"
  /\ \E loanId \in LoanIds, userId \in Callers, updateData \in UpdateLoanInputs :
       /\ args' = [loanId |-> loanId, userId |-> userId]
       /\ out' = backend_updateLoan(loans, loanId, userId, updateData, clock)
       /\ loans' = IF out'.ok THEN WithRow(loans, out'.value) ELSE loans
  /\ op' = "updateLoan"
  /\ pc' = "done"
  /\ UNCHANGED <<clock, earlier, payments, issued, deployment, calls>>

BackendDeleteLoan ==
  /\ deployment = "backend"
  /\ \E loanId \in LoanIds, userId \in Callers :
       /\ args' = [loanId |-> loanId, userId |-> userId]
       /\ out' = backend_deleteLoan(loans, payments, loanId, userId).result
       /\ loans' = backend_deleteLoan(loans, payments, loanId, userId).loans
  /\ op' = "deleteLoan"
  /\ pc' = "done"
  /\ UNCHANGED <<clock, earlier, payments, issued, deployment, calls>>

BackendGetLoanAmortization ==
  /\ deployment = "backend"
  /\ \E loanId \in LoanIds, userId \in Callers :
       \E completedPayments \in
            OrderedByPaymentDate({p \in PaymentsOfLoan(payments, loanId) :
                                    p.status = "completed"}) :
         /\ args' = [loanId |-> loanId, userId |-> userId]
         /\ out' = backend_getLoanAmortization(loans, loanId, userId, completedPayments)
  /\ op' = "getLoanAmortization"
  /\ pc' = "done"
  /\ UNCHANGED <<clock, earlier, store>>

\* A payment row is inserted into the backend's payments table and the
\* triggers bring the loan's totals up to date.
InsertPayment ==
  /\ deployment = "backend"
  /\ HasRoomForPayment
  /\ \E input \in PaymentInputs :
       /\ \E l \in loans : l.id = input.loanId
       /\ args' = [loanId |-> input.loanId, amount |-> input.amount]
       /\ payments' = payments \cup
            {[id |-> NewPaymentId, loanId |-> input.loanId, amount |-> input.amount,
              paymentDate |-> input.paymentDate,
              status |-> OrString(input.status, "completed"),
              principalPortion |-> Null, interestPortion |-> Null,
              balanceAfterPayment |-> Null]}
       /\ loans' = update_loan_after_payment(loans, input, clock)
  /\ out' = NoArgs
  /\ op' = "insertPayment"
  /\ pc' = "done"
  /\ UNCHANGED <<clock, earlier, deployment, calls>>
  /\ issued' = issued + 1

LedgerNext ==
  \/ AppCreateLoan
  \/ AppUpdateLoan
  \/ AppDeleteLoan
  \/ AppGetLoanAmortization
  \/ AppRecordPayment
  \/ AppUpdatePayment
  \/ AppDeletePayment
  \/ BackendCreateLoan
  \/ BackendUpdateLoan
  \/ BackendDeleteLoan
  \/ BackendGetLoanAmortization
  \/ InsertPayment

LedgerSpec == LedgerInit /\ [][LedgerNext]_vars

(***************************************************************************)
(* Properties of the stored loans and payments.                            *)
(***************************************************************************)
\* totalAmountDue - totalPaid of a stored loan.
AmountOwed(loan) == RSub(loan.totalAmountDue, loan.totalPaid)

\* C22: every stored loan has status fully_paid exactly when totalAmountDue -
\* totalPaid <= 0, and its outstandingBalance equals max(0, totalAmountDue -
\* totalPaid).
C22_StatusFollowsBalance ==
  \A l \in loans :
    /\ l.status = "fully_paid" <=> RLe(AmountOwed(l), Zero)
    /\ l.outstandingBalance = RMax(Zero, AmountOwed(l))

\* The sum of the amounts of a set of payment rows.
RECURSIVE SumOfAmounts(_)
SumOfAmounts(rows) ==
  IF rows = {} THEN Zero
  ELSE LET p == CHOOSE r \in rows : TRUE
       IN  RAdd(p.amount, SumOfAmounts(rows \ {p}))

\* C23: the totalPaid of every stored loan equals the sum of the amounts of
\* the payments stored for that loan.
C23_TotalPaidIsSumOfPayments ==
  \A l \in loans : l.totalPaid = SumOfAmounts(PaymentsOfLoan(payments, l.id))

(***************************************************************************)
(* Two recordPayment calls of the app in flight on one stored loan.  A     *)
(* call gives way to the other at each await: after it read the loan,      *)
(* after it inserted its payment, and after it wrote the loan.             *)
(***************************************************************************)
RecordCalls == {1, 2}

\* The loans a call may find stored.
StoredLoans == {app_createLoan(input, id, Date(0)).value : input \in CreateLoanInputs, id \in LoanIds}

RaceInit ==
  /\ pc = "idle"
  /\ op = "recordPayment"
  /\ args = NoArgs
  /\ out = NoArgs
  /\ clock = Date(0)
  /\ earlier = NoArgs
  /\ \E l \in StoredLoans : loans = {l}
  /\ payments = {}
  /\ issued = 0
  /\ deployment = "app"
  /\ calls \in [RecordCalls -> {[step |-> "called", input |-> input, loan |-> Null,
                                 result |-> NoArgs] : input \in PaymentInputs}]

\* const [loan] = await db.select().from(loans).where(eq(loans.id, input.loanId))
RecordPaymentRead(c) ==
  /\ calls[c].step = "called"
  /\ calls' = [calls EXCEPT ![c] =
                 IF \E l \in loans : l.id = calls[c].input.loanId
                 THEN [@ EXCEPT !.step = "read",
                                !.loan = LoanById(loans, calls[c].input.loanId)]
                 ELSE [@ EXCEPT !.step = "done", !.result = Throw("Loan not found")]]
  /\ UNCHANGED <<pc, op, args, out, clock, earlier, loans, payments, issued, deployment>>

\* The call once its accrued interest is known: it inserts the payment row
\* worked out from the loan it read, or ends with the Error.
InsertedWith(c, accrued) ==
  /\ payments' = IF accrued.ok
                 THEN payments \cup {app_PaymentRow(calls[c].loan, calls[c].input,
                                                    NewPaymentId, accrued.value)}
                 ELSE payments
  /\ issued' = IF accrued.ok THEN issued + 1 ELSE issued
  /\ calls' = [calls EXCEPT ![c] =
                 IF accrued.ok
                 THEN [@ EXCEPT !.step = "inserted",
                                !.result = Return([payment |-> NewPaymentId])]
                 ELSE [@ EXCEPT !.step = "done", !.result = accrued]]

\* await db.insert(payments).values({...}).returning()
RecordPaymentInsert(c) ==
  /\ calls[c].step = "read"
  /\ InsertedWith(c, app_AccruedInterestOf(calls[c].loan, calls[c].input))
  /\ UNCHANGED <<pc, op, args, out, clock, earlier, loans, deployment>>

\* await db.update(loans).set({...}).where(eq(loans.id, input.loanId)).returning()
RecordPaymentWrite(c) ==
  /\ calls[c].step = "inserted"
  /\ loans' = IF \E l \in loans : l.id = calls[c].input.loanId
              THEN WithRow(loans,
                           app_LoanAfterPayment(LoanById(loans, calls[c].input.loanId),
                                                calls[c].loan, calls[c].input, clock))
              ELSE loans
  /\ calls' = [calls EXCEPT ![c].step = "done"]
  /\ UNCHANGED <<pc, op, args, out, clock, earlier, payments, issued, deployment>>

RaceNext ==
  \E c \in RecordCalls :
    \/ RecordPaymentRead(c)
    \/ RecordPaymentInsert(c)
    \/ RecordPaymentWrite(c)

RaceSpec == RaceInit /\ [][RaceNext]_vars

\* Both calls have returned their payment.
BothRecorded == \A c \in RecordCalls : calls[c].step = "done" /\ calls[c].result.ok

\* C24: once two recordPayment calls on the same loan have both returned, the
\* loan's totalPaid holds both amounts, and its outstandingBalance and status
\* are those of that total: no update is lost.
C24_NoLostUpdate ==
  BothRecorded =>
    \A l \in loans :
      /\ l.totalPaid = RAdd(calls[1].input.amount, calls[2].input.amount)
      /\ l.outstandingBalance =
           RMax(Zero, RSub(l.totalAmountDue,
                           RAdd(calls[1].input.amount, calls[2].input.amount)))
      /\ l.status =
           IF RLe(RSub(l.totalAmountDue,
                       RAdd(calls[1].input.amount, calls[2].input.amount)), Zero)
           THEN "fully_paid"
           ELSE "partially_paid"

\* getLoanAmortization has returned a schedule.
AmortizationReturned == op = "getLoanAmortization" /\ out.ok

\* The completed payments stored for the loan of the call.
CompletedPayments == {p \in PaymentsOfLoan(payments, args.loanId) : p.status = "completed"}

\* The number of entries that are to be flagged: min(installments, completed
\* payments).
PaidCount == IF Len(out.value.schedule) < Cardinality(CompletedPayments) THEN Len(out.value.schedule) ELSE Cardinality(CompletedPayments)

\* C25: in the schedule getLoanAmortization returns, the entries flagged
\* isPaid are exactly the first k, k = min(number of installments, number of
\* completed payments of the loan), and entry i carries the date and amount
\* of the i-th completed payment in the order of the payment dates.
C25_PaidEntriesFollowCompletedPayments ==
  AmortizationReturned =>
    /\ \A i \in 1 .. Len(out.value.schedule) :
         out.value.schedule[i].isPaid <=> i <= PaidCount
    /\ \E byDate \in OrderedByPaymentDate(CompletedPayments) :
         \A i \in 1 .. PaidCount :
           /\ out.value.schedule[i].paidDate = byDate[i].paymentDate
           /\ out.value.schedule[i].paidAmount = byDate[i].amount

\* A step that is a call of deleteLoan.
DeleteLoanStep == op' = "deleteLoan"

\* The call is made by the user who owns the loan it names.
OwnerCalls == \E l \in loans : l.id = args'.loanId /\ l.userId = args'.userId

C27_WrittenOffIsKept ==
  [][\A l \in loans :
       l.status = "written_off" =>
         \A m \in loans' : m.id = l.id => m.status = "written_off"]_vars

(***************************************************************************)
(* The loan routes of the backend (routes/loanRoutes and                   *)
(* middlewares/authMiddleware.js): a request to the router passes the      *)
(* router's middleware in the order of registration, then the first route  *)
(* that matches it.  args is the request, op the controller method that    *)
(* was reached and out the response.                                       *)
(***************************************************************************)
Literal(s) == [kind |-> "literal", name |-> s]

Param(s) == [kind |-> "param", name |-> s]

\* The routes in the order of registration, paths as segments.
LoanRoutes ==
  <<[method |-> "POST", path |-> <<Literal("calculate")>>, handler |-> "calculateLoan"],
    [method |-> "POST", path |-> <<>>, handler |-> "createLoan"],
    [method |-> "GET", path |-> <<>>, handler |-> "getLoans"],
    [method |-> "GET", path |-> <<Param("loanId")>>, handler |-> "getLoanById"],
    [method |-> "PUT", path |-> <<Param("loanId")>>, handler |-> "updateLoan"],
    [method |-> "DELETE", path |-> <<Param("loanId")>>, handler |-> "deleteLoan"],
    [method |-> "GET", path |-> <<Param("loanId"), Literal("amortization")>>,
     handler |-> "getAmortization"]>>

\* A route matches a request of its method whose path has the route's
\* segments, a parameter standing for any segment.
RouteMatches(route, request) ==
  /\ route.method = request.method
  /\ Len(route.path) = Len(request.path)
  /\ \A i \in 1 .. Len(route.path) :
       route.path[i].kind = "param" \/ route.path[i].name = request.path[i]

\* The handler of the first route that matches, "none" when no route does.
RouteOf(request) ==
  IF \E i \in 1 .. Len(LoanRoutes) : RouteMatches(LoanRoutes[i], request)
  THEN LoanRoutes[CHOOSE i \in 1 .. Len(LoanRoutes) :
                    /\ RouteMatches(LoanRoutes[i], request)
                    /\ \A j \in 1 .. i - 1 : ~RouteMatches(LoanRoutes[j], request)].handler
  ELSE "none"

\* The Authorization headers of a request: none, another scheme, and a
\* bearer token that jwt.verify accepts, finds expired or rejects.
NoHeader == [scheme |-> "none", token |-> "none"]

AuthorizationHeaders ==
  {NoHeader, [scheme |-> "Basic", token |-> "credentials"],
   [scheme |-> "Bearer", token |-> "valid"],
   [scheme |-> "Bearer", token |-> "expired"],
   [scheme |-> "Bearer", token |-> "forged"]}

Requests ==
  {[method |-> m, path |-> p, authorization |-> h] :
     m \in {"GET", "POST", "PUT", "DELETE"},
     p \in {<<>>, <<"calculate">>, <<"loan1">>, <<"loan1", "amortization">>},
     h \in AuthorizationHeaders}

Unauthorized(code, message) == [status |-> 401, code |-> code, message |-> message]

\* AuthMiddleware.authenticate: the response it sends, or next() by which
\* the request goes on.
authenticate(request) ==
  IF request.authorization = NoHeader \/ request.authorization.scheme # "Bearer"
  THEN [next |-> FALSE, response |-> Unauthorized("AUTH_003", "No token provided")]
  ELSE IF request.authorization.token = "valid"
  THEN [next |-> TRUE, response |-> NoArgs]
  ELSE IF request.authorization.token = "expired"
  THEN [next |-> FALSE, response |-> Unauthorized("AUTH_002", "Token expired")]
  ELSE [next |-> FALSE, response |-> Unauthorized("AUTH_003", "Invalid token")]

RouteInit ==
  /\ pc = "idle"
  /\ op = "none"
  /\ args = NoArgs
  /\ out = NoArgs
  /\ clock = Date(0)
  /\ earlier = NoArgs
  /\ loans = {}
  /\ payments = {}
  /\ issued = 0
  /\ deployment = "backend"
  /\ calls = <<>>

\* A request reaches the router.
ReceiveRequest ==
  /\ pc = "idle"
  /\ \E request \in Requests : args' = request
  /\ pc' = "middleware"
  /\ UNCHANGED <<op, out, clock, earlier, store>>

\* router.use(authMiddleware.authenticate), registered before every route.
RunAuthenticate ==
  /\ pc = "middleware"
  /\ pc' = IF authenticate(args).next THEN "routes" ELSE "responded"
  /\ out' = authenticate(args).response
  /\ UNCHANGED <<op, args, clock, earlier, store>>

\* The request reaches the controller method of its route, which responds;
\* a request without a route gets the 404 of the application.
RunRoute ==
  /\ pc = "routes"
  /\ op' = RouteOf(args)
  /\ out' = IF RouteOf(args) = "none" THEN [status |-> 404]
            ELSE [handledBy |-> RouteOf(args)]
  /\ pc' = "responded"
  /\ UNCHANGED <<args, clock, earlier, store>>

FinishRequest ==
  /\ pc = "responded"
  /\ pc' = "idle"
  /\ op' = "none"
  /\ args' = NoArgs
  /\ out' = NoArgs
  /\ UNCHANGED <<clock, earlier, store>>

RouteNext ==
  \/ ReceiveRequest
  \/ RunAuthenticate
  \/ RunRoute
  \/ FinishRequest

RouteSpec == RouteInit /\ [][RouteNext]_vars

\* C28: a POST /calculate request that carries no bearer token reaches
\* loanController.calculateLoan and is not answered with 401 by the
\* authentication middleware.
C28_CalculateNeedsNoToken ==
  (/\ pc = "responded"
   /\ args.method = "POST"
   /\ args.path = <<"calculate">>
   /\ args.authorization.scheme # "Bearer") =>
    /\ op = "calculateLoan"
    /\ out # Unauthorized("AUTH_003", "No token provided")

(***************************************************************************)
(* The two implementations of the core side by side: a caller hands the    *)
(* same arguments to the backend's function and to the app's and keeps     *)
(* both results.                                                           *)
(***************************************************************************)
Both(backendResult, appResult) == [backend |-> backendResult, app |-> appResult]

\* 100 at 0% or 12% over one or two installments, at every frequency.
ParityEMIInputs ==
  {[principal |-> RInt(100), annualInterestRate |-> r, numberOfInstallments |-> n,
    paymentFrequency |-> f, firstPaymentDate |-> [y |-> 2024, m |-> 1, d |-> 31]] :
     r \in {Zero, RInt(12)}, n \in {1, 2}, f \in PaymentFrequencies}

\* Every frequency with the annual rate (percent) that is 1% a period in the
\* backend, and with no interest.
ParityRateTerms ==
  {<<RInt(365), "daily">>, <<RInt(52), "weekly">>, <<RInt(26), "biweekly">>,
   <<RInt(12), "monthly">>, <<RInt(4), "quarterly">>, <<RInt(1), "yearly">>,
   <<RInt(12), "one_time">>, <<RInt(12), "custom">>}
    \cup {<<Zero, f>> : f \in PaymentFrequencies}

\* 100 repaid by 60 a period.
ParityTenureInputs ==
  {[principal |-> RInt(100), emiAmount |-> RInt(60), annualInterestRate |-> t[1],
    paymentFrequency |-> t[2]] :
     t \in ParityRateTerms}

\* 100 over 73 days at 0% or 10%, by every interest type; compound interest
\* with a frequency and with none supplied.
ParityInterestInputs ==
  {[principalAmount |-> RInt(100), interestRate |-> r, issueDate |-> Date(0),
    dueDate |-> Date(73 * 24), interestType |-> t, compoundFrequency |-> f] :
     r \in {Zero, RInt(10)}, t \in {"none", "simple", "compound"},
     f \in {NotSupplied, "monthly", "yearly"}}

ParityBreakdownInputs ==
  {[paymentAmount |-> p, accruedInterest |-> i, outstandingPrincipal |-> RInt(100)] :
     p \in {Zero, RInt(50), RInt(150)}, i \in {Zero, RInt(10), RInt(60)}}

CompareCalculateEMI ==
  /\ pc = "idle"
  /\ \E a \in ParityEMIInputs :
       /\ args' = a
       /\ out' = Both(calculateEMI(a.principal, a.annualInterestRate,
                                   a.numberOfInstallments, a.paymentFrequency),
                      app_calculateEMI(a.principal, a.annualInterestRate,
                                       a.numberOfInstallments, a.paymentFrequency))
  /\ op' = "calculateEMI"
  /\ pc' = "done"
  /\ UNCHANGED <<clock, earlier, store>>

CompareGenerateAmortizationSchedule ==
  /\ pc = "idle"
  /\ \E a \in ParityEMIInputs :
       /\ args' = a
       /\ out' = Both(generateAmortizationSchedule(a),
                      app_generateAmortizationSchedule(a))
  /\ op' = "generateAmortizationSchedule"
  /\ pc' = "done"
  /\ UNCHANGED <<clock, earlier, store>>

CompareCalculateNumberOfInstallments ==
  /\ pc = "idle"
  /\ \E a \in ParityTenureInputs :
       /\ args' = a
       /\ out' = Both(calculateNumberOfInstallments(a.principal, a.emiAmount,
                                                    a.annualInterestRate,
                                                    a.paymentFrequency),
                      app_calculateNumberOfInstallments(a.principal, a.emiAmount,
                                                        a.annualInterestRate,
                                                        a.paymentFrequency))
  /\ op' = "calculateNumberOfInstallments"
  /\ pc' = "done"
  /\ UNCHANGED <<clock, earlier, store>>

CompareCalculateTotalAmountDue ==
  /\ pc = "idle"
  /\ \E a \in ParityInterestInputs :
       /\ args' = a
       /\ out' = Both(calculateTotalAmountDue(a), app_calculateTotalAmountDue(a))
  /\ op' = "calculateTotalAmountDue"
  /\ pc' = "done"
  /\ UNCHANGED <<clock, earlier, store>>

CompareCalculatePeriodInterest ==
  /\ pc = "idle"
  /\ \E a \in ParityInterestInputs :
       /\ args' = a
       /\ out' = Both(calculatePeriodInterest(a.principalAmount, a.interestRate,
                                              a.issueDate, a.dueDate, a.interestType,
                                              a.compoundFrequency),
                      app_calculatePeriodInterest(a.principalAmount, a.interestRate,
                                                  a.issueDate, a.dueDate,
                                                  a.interestType, a.compoundFrequency))
  /\ op' = "calculatePeriodInterest"
  /\ pc' = "done"
  /\ UNCHANGED <<clock, earlier, store>>

CompareCalculatePaymentBreakdown ==
  /\ pc = "idle"
  /\ \E a \in ParityBreakdownInputs :
       /\ args' = a
       /\ out' = Both(calculatePaymentBreakdown(a.paymentAmount, a.accruedInterest,
                                                a.outstandingPrincipal),
                      app_calculatePaymentBreakdown(a.paymentAmount, a.accruedInterest,
                                                    a.outstandingPrincipal))
  /\ op' = "calculatePaymentBreakdown"
  /\ pc' = "done"
  /\ UNCHANGED <<clock, earlier, store>>

ParityNext ==
  \/ CompareCalculateEMI
  \/ CompareGenerateAmortizationSchedule
  \/ CompareCalculateNumberOfInstallments
  \/ CompareCalculateTotalAmountDue
  \/ CompareCalculatePeriodInterest
  \/ CompareCalculatePaymentBreakdown
  \/ Finish

ParitySpec == Init /\ [][ParityNext]_vars

\* C29: for identical arguments the backend's and the app's calculateEMI,
\* generateAmortizationSchedule, calculateNumberOfInstallments,
\* calculateTotalAmountDue, calculatePeriodInterest and
\* calculatePaymentBreakdown return identical results, at every frequency
\* and for compound interest with no compounding frequency supplied.
C29_ImplementationsAgree == pc = "done" => out.backend = out.app

(***************************************************************************)
(* The interest schedule of the backend: generateInterestSchedule runs a   *)
(* loop over the periods between issueDate and dueDate; each iteration of  *)
(* the loop is one step.  While the loop runs, out holds its variables     *)
(* schedule, currentDate and cumulativeInterest.                           *)
(***************************************************************************)
\* frequencyDaysMap[scheduleFrequency] || 30
frequencyDaysMap(scheduleFrequency) ==
  CASE scheduleFrequency = "daily" -> 1
    [] scheduleFrequency = "weekly" -> 7
    [] scheduleFrequency = "monthly" -> 30
    [] scheduleFrequency = "quarterly" -> 90
    [] OTHER -> 30

\* new Date(date) moved by setDate(getDate() + days); a day is 24 hours (no
\* daylight saving shift).
AddDays(date, days) == Date(date.time + 24 * days)

\* The schedule of a loan without interest: one entry at the due date.
SingleEntrySchedule(loanDetails) ==
  <<[date |-> loanDetails.dueDate,
     principalBalance |-> loanDetails.principalAmount,
     interestAccrued |-> Zero,
     cumulativeInterest |-> Zero,
     totalBalance |-> loanDetails.principalAmount]>>

\* The loop's variables before its first iteration.
InterestScheduleStart(loanDetails) ==
  [schedule |-> <<>>, currentDate |-> Date(loanDetails.issueDate.time),
   cumulativeInterest |-> Zero]

PeriodEndDate_Unclamped(loanDetails, nextDate) == nextDate

\* nextDate > dueDate ? dueDate : nextDate
PeriodEndDate(loanDetails, nextDate) ==
  IF nextDate.time > loanDetails.dueDate.time THEN loanDetails.dueDate ELSE nextDate

\* The entry pushed for the period that ends at endDate; cumulativeInterest
\* already holds the period's interest.
InterestScheduleEntry(loanDetails, endDate, periodInterest, cumulativeInterest) ==
  [date |-> Date(endDate.time),
   principalBalance |-> loanDetails.principalAmount,
   interestAccrued |-> toFixed2(periodInterest),
   cumulativeInterest |-> toFixed2(cumulativeInterest),
   totalBalance |-> toFixed2(RAdd(loanDetails.principalAmount, cumulativeInterest))]

\* The rest of an iteration once the period's interest is known: an Error of
\* calculatePeriodInterest leaves the function; otherwise the entry is pushed,
\* currentDate moves on, and the loop is left when currentDate >= dueDate.
InterestScheduleIterationWith(loanDetails, state, nextDate, endDate, periodInterest) ==
  IF ~periodInterest.ok THEN [pc |-> "done", out |-> periodInterest]
  ELSE LET cumulativeInterest == RAdd(state.cumulativeInterest, periodInterest.value)
           schedule == Append(state.schedule,
                              InterestScheduleEntry(loanDetails, endDate,
                                                    periodInterest.value,
                                                    cumulativeInterest))
       IN  IF nextDate.time >= loanDetails.dueDate.time
           THEN [pc |-> "done", out |-> Return(schedule)]
           ELSE [pc |-> "loop",
                 out |-> [schedule |-> schedule, currentDate |-> nextDate,
                          cumulativeInterest |-> cumulativeInterest]]

\* The while test and one run of the loop's body.
InterestScheduleIterationOf(loanDetails, incrementDays, state) ==
  IF state.currentDate.time > loanDetails.dueDate.time
  THEN [pc |-> "done", out |-> Return(state.schedule)]
  ELSE InterestScheduleIterationWith(
         loanDetails, state, AddDays(state.currentDate, incrementDays),
         PeriodEndDate(loanDetails, AddDays(state.currentDate, incrementDays)),
         calculatePeriodInterest(
           loanDetails.principalAmount, loanDetails.interestRate, state.currentDate,
           PeriodEndDate(loanDetails, AddDays(state.currentDate, incrementDays)),
           loanDetails.interestType, loanDetails.compoundFrequency))

\* Due dates, in hours after the issue date: the day before, the same
\* instant, half a day, and 7, 30 and 45 days later.
ScheduleDueHours == {0 - 24, 0, 12, 7 * 24, 30 * 24, 45 * 24}

\* Loans of 1000 and of 0, at 0%, 10% and -5%, of every interest type;
\* compound interest is compounded daily.
InterestScheduleInputs ==
  {[principalAmount |-> p, interestRate |-> r, issueDate |-> Date(0),
    dueDate |-> Date(h), interestType |-> t, compoundFrequency |-> "daily"] :
     p \in {RInt(1000), Zero}, r \in {Zero, RInt(10), RInt(0 - 5)},
     h \in ScheduleDueHours, t \in {"none", "simple", "compound"}}

\* The documented schedule frequencies, one the map does not hold, and none.
ScheduleFrequencies == {"daily", "weekly", "monthly", "quarterly", "yearly", NotSupplied}

CallGenerateInterestSchedule ==
  /\ pc = "idle"
  /\ \E d \in InterestScheduleInputs, f \in ScheduleFrequencies :
       /\ args' = [loanDetails |-> d, scheduleFrequency |-> f]
       /\ IF d.interestType = "none" \/ IsFalsy(d.interestRate)
          THEN /\ out' = Return(SingleEntrySchedule(d))
               /\ pc' = "done"
          ELSE /\ out' = InterestScheduleStart(d)
               /\ pc' = "loop"
  /\ op' = "generateInterestSchedule"
  /\ UNCHANGED <<clock, earlier, store>>

InterestScheduleIteration ==
  /\ pc = "loop"
  /\ LET after == InterestScheduleIterationOf(args.loanDetails,
                                              frequencyDaysMap(args.scheduleFrequency),
                                              out)
     IN  /\ pc' = after.pc
         /\ out' = after.out
  /\ UNCHANGED <<op, args, clock, earlier, store>>

InterestScheduleNext ==
  \/ CallGenerateInterestSchedule
  \/ InterestScheduleIteration
  \/ Finish

\* A step of the running loop, whatever it leaves in out.  From a state with
\* pc = "loop" the steps of InterestScheduleNext of this kind are exactly
\* those of InterestScheduleIteration, which is enabled in every such state.
InterestScheduleRuns ==
  /\ pc = "loop"
  /\ pc' \in {"loop", "done"}
  /\ out' = NoArgs \/ out' # NoArgs
  /\ UNCHANGED <<op, args, clock, earlier, store>>

\* A call runs to its end without interruption (the function is synchronous):
\* while the loop can take a step, it takes one.
InterestScheduleSpec ==
  Init /\ [][InterestScheduleNext]_vars /\ WF_vars(InterestScheduleRuns)

\* The entries' dates increase strictly, the last one is dueDate, and
\* cumulativeInterest never decreases.
IsInterestSchedule(schedule, dueDate) ==
  /\ Len(schedule) >= 1
  /\ schedule[Len(schedule)].date = dueDate
  /\ \A i \in 1 .. Len(schedule) - 1 :
       /\ schedule[i].date.time < schedule[i + 1].date.time
       /\ RLe(schedule[i].cumulativeInterest, schedule[i + 1].cumulativeInterest)

InterestScheduleReturned ==
  pc = "done" /\ op = "generateInterestSchedule"
    /\ args.loanDetails.issueDate.time <= args.loanDetails.dueDate.time

\* An iteration of the running loop leaves the loop or moves currentDate
\* forward.
InterestScheduleAdvances ==
  pc = "loop" =>
    \E after \in {InterestScheduleIterationOf(args.loanDetails,
                                              frequencyDaysMap(args.scheduleFrequency),
                                              out)} :
      after.pc = "done" \/ after.out.currentDate.time > out.currentDate.time

=============================================================================
